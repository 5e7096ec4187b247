-------------------------- MODULE AnalysisDefaults --------------------------
(***************************************************************************)
(* The values a project's video analyses judge by (analysisDefaults.ts,    *)
(* AnalysisDefaultsForm.tsx, AnalysisDefaultsStore.cs).  The server keeps  *)
(* the values that differ from the defaults, a save replaces them all, and *)
(* nobody is told: a page reads them when it is opened.  A value that is   *)
(* out of its field's range counts as not there.                           *)
(***************************************************************************)
EXTENDS Naturals

CONSTANTS Pages,     \* the pages that have the values: the Setting page of a user, an analysis of another
          Keys,      \* the fields
          Legal,     \* what a field may hold
          Base,      \* Base[k]: its default
          MaxSaves   \* bound: saves

VARIABLES
  stored,  \* [values, stamp]: those that differ, and which save they are of; 0: none
  got,     \* what each page has read: [at, values, stamp]; at: "closed", "asked", "read" or "failed"
  draft,   \* the form's fields
  saving,  \* [on, values, edited, current] of each page: the save on its way; current: nobody saved since the page read
  saves    \* how many there have been

defaultsVars == <<stored, got, draft, saving, saves>>

Bad == 99      \* a text that is no number, or out of range
Unset == 0     \* the field is not among those stored
Nothing == [k \in Keys |-> Unset]
Closed == [at |-> "closed", values |-> Nothing, stamp |-> 0]
NoSave == [on |-> FALSE, values |-> Nothing, edited |-> {}, current |-> FALSE]

MergeParams(values) == [k \in Keys |-> IF values[k] \in Legal THEN values[k] ELSE Base[k]]

ChangedParams(params, from) == [k \in Keys |-> IF params[k] # Base[k] THEN params[k] ELSE Unset]

Params(p) == MergeParams(got[p].values)
Loaded(p) == got[p].at \in {"read", "failed"}

\* The form is drawn anew when its key changes: when the values have been read, or a save has stamped them.
FormKey(g) == IF g.at \in {"read", "failed"} THEN <<"loaded", g.stamp>> ELSE <<g.at, 0>>

Takes(p, g) ==
  /\ got' = [got EXCEPT ![p] = g]
  /\ draft' = IF FormKey(g) = FormKey(got[p]) THEN draft ELSE [draft EXCEPT ![p] = MergeParams(g.values)]

DefaultsInit ==
  /\ stored \in {[values |-> Nothing, stamp |-> 0]} \cup [values : [Keys -> {Unset, Bad} \cup Legal], stamp : {1}]
  /\ got = [p \in Pages |-> Closed] /\ draft = [p \in Pages |-> Base]
  /\ saving = [p \in Pages |-> NoSave] /\ saves = 1

Open(p) ==
  /\ got[p].at = "closed" /\ ~saving[p].on /\ Takes(p, [Closed EXCEPT !.at = "asked"])
  /\ UNCHANGED <<stored, saving, saves>>

\* The answer finds its page still there: a page that is gone takes none.
Reads(p) ==
  /\ got[p].at = "asked" /\ Takes(p, [at |-> "read", values |-> stored.values, stamp |-> stored.stamp])
  /\ UNCHANGED <<stored, saving, saves>>

ReadFails(p) ==
  /\ got[p].at = "asked" /\ Takes(p, [Closed EXCEPT !.at = "failed"])
  /\ UNCHANGED <<stored, saving, saves>>

Leave(p) ==
  /\ got[p].at # "closed" /\ Takes(p, Closed)
  /\ UNCHANGED <<stored, saving, saves>>

Edit(p, k, text) ==
  /\ got[p].at # "closed" /\ draft[p][k] # text /\ draft' = [draft EXCEPT ![p][k] = text]
  /\ UNCHANGED <<stored, got, saving, saves>>

AllDefaults(p) ==
  /\ got[p].at # "closed" /\ draft' = [draft EXCEPT ![p] = Base]
  /\ UNCHANGED <<stored, got, saving, saves>>

Invalid(p) == \E k \in Keys : draft[p][k] = Bad
Dirty(p) == draft[p] # Params(p)

Save(p) ==
  /\ Loaded(p) /\ Dirty(p) /\ ~Invalid(p) /\ ~saving[p].on /\ saves < MaxSaves
  /\ saving' = [saving EXCEPT ![p] = [on |-> TRUE, values |-> ChangedParams(draft[p], Params(p)),
                                      edited |-> {k \in Keys : draft[p][k] # Params(p)[k]},
                                      current |-> got[p].at = "read" /\ got[p].values = stored.values]]
  /\ saves' = saves + 1 /\ UNCHANGED <<stored, got, draft>>

\* AnalysisDefaultsStore.Set, and its answer, which a page that is gone does not take; a project with nothing of its own is
\* forgotten, though the answer is stamped.
Saved(p) ==
  /\ saving[p].on
  /\ LET values == saving[p].values
     IN /\ stored' = [values |-> values, stamp |-> IF values = Nothing THEN 0 ELSE saves]
        /\ IF got[p].at = "closed" THEN UNCHANGED <<got, draft>>
           ELSE Takes(p, [at |-> "read", values |-> values, stamp |-> saves])
        /\ saving' = [q \in Pages |-> IF q = p THEN NoSave ELSE [saving[q] EXCEPT !.current = FALSE]]
  /\ UNCHANGED saves

SaveFails(p) == saving[p].on /\ saving' = [saving EXCEPT ![p] = NoSave] /\ UNCHANGED <<stored, got, draft, saves>>

Next == \E p \in Pages :
  \/ Open(p) \/ Reads(p) \/ ReadFails(p) \/ Leave(p) \/ AllDefaults(p) \/ Save(p) \/ Saved(p) \/ SaveFails(p)
  \/ \E k \in Keys, text \in Legal \cup {Bad} : Edit(p, k, text)

\* What TLC looks into: one form is edited at a time.
OneForm == \A p, q \in Pages : p # q => ~(got[p].at # "closed" /\ Dirty(p) /\ got[q].at # "closed" /\ Dirty(q))

DefaultsSpec == DefaultsInit /\ [][Next]_defaultsVars

(***************************************************************************)
(* Properties.                                                             *)
(***************************************************************************)
DefaultsTypeOK ==
  /\ stored.values \in [Keys -> {Unset, Bad} \cup Legal] /\ stored.stamp \in 0..MaxSaves
  /\ \A p \in Pages : got[p].at \in {"closed", "asked", "read", "failed"} /\ draft[p] \in [Keys -> {Bad} \cup Legal]
  /\ saves \in 1..MaxSaves

Judged == MergeParams(stored.values)

\* A save changes the values the project judges by in the fields that were edited only, unless another was made since the
\* page read them or they could not be read.
OnlyTheEditedChange ==
  \A p \in Pages : saving[p].on /\ ~saving'[p].on /\ saving[p].current /\ stored' # stored
    => \A k \in Keys \ saving[p].edited : Judged'[k] = Judged[k]

\* Does not hold:
\* The same whatever was read: a form whose values could not be read is saved over them (AnalysisDefaultsForm.tsx:94), and
\* the save of another user is undone.
OthersAreKept ==
  [][\A p \in Pages : saving[p].on /\ ~saving'[p].on /\ stored' # stored => \A k \in Keys \ saving[p].edited : Judged'[k] = Judged[k]]_defaultsVars

\* Does not hold:
\* AnalysisDefaultsForm.tsx:51: what is open judges anew at once.  It does so in the page of the save.
OpenOnesFollow == \A p \in Pages : got[p].at = "read" => Params(p) = Judged
=============================================================================
