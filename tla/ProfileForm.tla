---------------------------- MODULE ProfileForm ----------------------------
(***************************************************************************)
(* The form that sets the folders of a PC (ProfileForm and FolderPicker in *)
(* ResultsPage.tsx), as the page shows it for the PC picked: the drives it *)
(* reads to fill itself in, the check of the folders before the first      *)
(* save, the presets, and the window that picks a folder.  The form is     *)
(* gone when another PC is picked; what it had begun is not.               *)
(***************************************************************************)
EXTENDS Naturals, FiniteSets

CONSTANTS PCs,          \* the PCs
          Dirs,         \* the folders that are typed or picked
          Home,         \* Home[pc]: the folder its drive holds the results in, or Empty
          Others,       \* what other users set for a PC
          Presets       \* what presets may be named

None == "none"
Empty == "empty"
\* What is set for a PC: how its results look and, of its folders, the one they are in
\* and the one of the images they are compared with.
Fields == {"result", "ref"}
NotSet == [mode |-> None, result |-> None, ref |-> None]
Blank == [mode |-> "ats", result |-> Empty, ref |-> Empty]
OfDrive(p, d) == [p EXCEPT !.result = d, !.ref = d]

VARIABLES where,    \* [pc, editing]: the PC picked, whether its folders are being set
          set,      \* what is set for each PC, or NotSet
          presets,  \* the presets: what they hold, or NotSet where there is none
          form,     \* the form on show
          saves,    \* save() under way: [pc, p, at, own: by the form on show]
          drives,   \* what the form on show waits for: the drives, to list them or to fill itself
                    \* in, or what is on them
          picker    \* [on, field, path, listing, failed]

formVars == <<where, set, presets, form, saves, drives, picker>>

NoPicker == [on |-> FALSE, field |-> None, path |-> None, listing |-> None, failed |-> FALSE]
\* own: the folders as they were set, typed or picked, without those of a drive found
\* afterwards; for the properties.
FreshForm(p) == [p |-> p, warn |-> FALSE, busy |-> FALSE, preset |-> None, naming |-> FALSE,
                 presetBusy |-> FALSE, listed |-> FALSE, own |-> p]

FormShown == where.pc # None /\ (where.editing \/ set[where.pc] = NotSet)
SameValues(a, b) == a = b

FormInit ==
  /\ where = [pc |-> None, editing |-> FALSE] /\ set = [p \in PCs |-> NotSet]
  /\ presets = [i \in Presets |-> NotSet] /\ form = FreshForm(Blank) /\ saves = {}
  /\ drives = None /\ picker = NoPicker

\* What is mounted after a step that shows w with s set: a new form for another
\* PC or after there was none (key = agent.id), which is filled in from what is set
\* and shows the preset that is the same; else the form stays.
Initial(p) == IF p = NotSet THEN Blank ELSE p
Shown(w, s) == w.pc # None /\ (w.editing \/ s[w.pc] = NotSet)
Another(w) == w.pc # where.pc
Mounts(w, s) == Shown(w, s) /\ (~FormShown \/ Another(w))
Leaves(w, s) == FormShown /\ (~Shown(w, s) \/ Another(w))
PresetOf(p) == IF p = NotSet \/ \A i \in Presets : presets[i] = NotSet \/ ~SameValues(presets[i], p) THEN None
               ELSE CHOOSE i \in Presets : presets[i] # NotSet /\ SameValues(presets[i], p)
Wanted(p) == IF p = NotSet THEN "fill" ELSE "list"
Render(w, s, kept, left) ==
  /\ where' = w /\ set' = s
  /\ form' = IF Mounts(w, s) THEN [FreshForm(Initial(s[w.pc])) EXCEPT !.preset = PresetOf(s[w.pc])]
             ELSE IF Leaves(w, s) THEN FreshForm(Blank) ELSE kept
  /\ saves' = IF Leaves(w, s) THEN {[v EXCEPT !.own = FALSE] : v \in left} ELSE left
  /\ picker' = IF Leaves(w, s) THEN NoPicker ELSE picker
  /\ drives' = IF Mounts(w, s) THEN Wanted(s[w.pc]) ELSE IF Leaves(w, s) THEN None ELSE drives

\* select, the button that sets the folders, cancel, and another user's change.
Pick(pc) == where.pc # pc /\ Render([pc |-> pc, editing |-> FALSE], set, form, saves) /\ UNCHANGED presets
Edit == ~FormShown /\ where.pc # None /\ Render([where EXCEPT !.editing = TRUE], set, form, saves) /\ UNCHANGED presets
Cancel ==
  /\ FormShown /\ set[where.pc] # NotSet /\ ~form.busy
  /\ Render([where EXCEPT !.editing = FALSE], set, form, saves) /\ UNCHANGED presets
SetElsewhere(pc, p) == set[pc] # p /\ Render(where, [set EXCEPT ![pc] = p], form, saves) /\ UNCHANGED presets

(***************************************************************************)
(* The values: typed, from a drive, from a preset.                         *)
(***************************************************************************)
Set(p) == [form EXCEPT !.p = p, !.warn = FALSE]
Chosen(f, d) == [Set([form.p EXCEPT ![f] = d]) EXCEPT !.own[f] = d]
Type(f, d) ==
  /\ FormShown /\ form' = Chosen(f, d) /\ UNCHANGED <<where, set, presets, saves, drives, picker>>
SetMode(m) ==
  /\ FormShown /\ form' = Set([form.p EXCEPT !.mode = m])
  /\ UNCHANGED <<where, set, presets, saves, drives, picker>>
PickDrive(d) ==
  /\ FormShown /\ form.p.mode = "ats" /\ form.listed
  /\ form' = [Set(OfDrive(form.p, d)) EXCEPT !.own = OfDrive(@, d)]
  /\ UNCHANGED <<where, set, presets, saves, drives, picker>>

\* The drives are known, and where nothing was set for the PC they are searched.  A form
\* that is gone does not ask any more.
DrivesKnown(ok) ==
  /\ drives \in {"fill", "list"} /\ drives' = IF ok /\ drives = "fill" THEN "search" ELSE None
  /\ form' = [form EXCEPT !.listed = ok]
  /\ UNCHANGED <<where, set, presets, saves, picker>>
\* The first drive that holds results fills the form in, if it shows no Result folder by
\* now; the other folder it shows is not asked for.
DrivesSearched(ok) ==
  /\ drives = "search" /\ drives' = None
  /\ form' = IF ok /\ Home[where.pc] # Empty /\ form.p.mode = "ats" /\ form.p.result = Empty
             THEN [form EXCEPT !.p = OfDrive(form.p, Home[where.pc])] ELSE form
  /\ UNCHANGED <<where, set, presets, saves, picker>>
\* The PC is gone, or connected anew: its drives are read again.
Disconnected == drives # None /\ drives' = None /\ UNCHANGED <<where, set, presets, form, saves, picker>>
Reconnected ==
  /\ FormShown /\ drives' = Wanted(set[where.pc])
  /\ UNCHANGED <<where, set, presets, form, saves, picker>>

ApplyPreset(i) ==
  /\ FormShown /\ ~form.presetBusy
  /\ form' = IF i # None /\ presets[i] # NotSet
             THEN [Set(presets[i]) EXCEPT !.preset = i, !.naming = FALSE, !.own = presets[i]]
             ELSE [form EXCEPT !.preset = i, !.naming = FALSE]
  /\ UNCHANGED <<where, set, presets, saves, drives, picker>>
NamePreset == /\ FormShown /\ form' = [form EXCEPT !.naming = ~@]
              /\ UNCHANGED <<where, set, presets, saves, drives, picker>>

\* runPreset: saveAsPreset, updatePreset and removePreset with the values at the click.
RunPreset(work) ==
  /\ FormShown /\ ~form.presetBusy /\ form' = [form EXCEPT !.presetBusy = TRUE]
  /\ saves' = saves \cup {work} /\ UNCHANGED <<where, set, presets, drives, picker>>
Preset(i, p, at) == [pc |-> where.pc, p |-> p, at |-> at, own |-> TRUE, preset |-> i]
SaveAsPreset(i) == form.naming /\ form.p.result # Empty /\ presets[i] = NotSet /\ RunPreset(Preset(i, form.p, "named"))
UpdatePreset ==
  /\ form.preset # None /\ presets[form.preset] # NotSet /\ form.p.result # Empty
  /\ ~SameValues(presets[form.preset], form.p)
  /\ RunPreset(Preset(form.preset, form.p, "preset"))
RemovePreset == form.preset # None /\ presets[form.preset] # NotSet /\ RunPreset(Preset(form.preset, NotSet, "preset"))
PresetSaved(v, ok) ==
  /\ v.at \in {"named", "preset"} /\ saves' = saves \ {v}
  /\ presets' = IF ok THEN [presets EXCEPT ![v.preset] = v.p] ELSE presets
  /\ form' = IF ~v.own THEN form
             ELSE [form EXCEPT !.presetBusy = FALSE,
                               !.preset = IF ~ok THEN @ ELSE IF v.p = NotSet THEN None ELSE v.preset,
                               !.naming = IF ok /\ v.at = "named" THEN FALSE ELSE @]
  /\ UNCHANGED <<where, set, drives, picker>>

(***************************************************************************)
(* Saving.                                                                 *)
(***************************************************************************)
\* save: folders that are missing are told of once; the second time it saves.
\* Without a connection there is nothing to check.
Save(connected) ==
  /\ FormShown /\ ~form.busy /\ form.p.result # Empty
  /\ form' = [form EXCEPT !.busy = TRUE]
  /\ saves' = saves \cup {[pc |-> where.pc, p |-> form.p, own |-> TRUE, preset |-> None,
                           at |-> IF connected /\ ~form.warn THEN "check" ELSE "send"]}
  /\ UNCHANGED <<where, set, presets, drives, picker>>
Checked(v, missing) ==
  /\ v.at = "check"
  /\ IF missing
     THEN /\ saves' = saves \ {v}
          /\ form' = IF v.own THEN [form EXCEPT !.warn = TRUE, !.busy = FALSE] ELSE form
     ELSE saves' = (saves \ {v}) \cup {[v EXCEPT !.at = "send"]} /\ UNCHANGED form
  /\ UNCHANGED <<where, set, presets, drives, picker>>
\* onSave: the folders are set, and whatever is being edited by now is closed.
Saved(v) ==
  /\ v.at = "send" /\ UNCHANGED presets
  /\ Render([where EXCEPT !.editing = FALSE], [set EXCEPT ![v.pc] = v.p], form, saves \ {v})
SaveFails(v) ==
  /\ v.at = "send" /\ saves' = saves \ {v}
  /\ form' = IF v.own THEN [form EXCEPT !.busy = FALSE] ELSE form
  /\ UNCHANGED <<where, set, presets, drives, picker>>
\* onRemove does not wait for a save that is under way, nor does the form for it.
Unset ==
  /\ FormShown /\ ~form.busy /\ set[where.pc] # NotSet
  /\ saves' = saves \cup {[pc |-> where.pc, p |-> NotSet, own |-> FALSE, preset |-> None, at |-> "send"]}
  /\ UNCHANGED <<where, set, presets, form, drives, picker>>

(***************************************************************************)
(* FolderPicker: a path, and the listing of the last one that answered.    *)
(***************************************************************************)
Start(f) == IF form.p[f] # Empty THEN form.p[f] ELSE form.p.result
Browse(f) == /\ FormShown /\ ~picker.on
             /\ picker' = [NoPicker EXCEPT !.on = TRUE, !.field = f, !.path = Start(f)]
             /\ UNCHANGED <<where, set, presets, form, saves, drives>>
GoTo(d) == /\ picker.on /\ picker.listing # None /\ picker' = [picker EXCEPT !.path = d, !.failed = FALSE]
           /\ UNCHANGED <<where, set, presets, form, saves, drives>>
Listed(ok) ==
  /\ picker.on /\ picker.path # picker.listing /\ ~picker.failed
  /\ picker' = IF ok THEN [picker EXCEPT !.listing = picker.path]
               ELSE IF picker.path # Empty THEN [picker EXCEPT !.path = Empty]
               ELSE [picker EXCEPT !.failed = TRUE]
  /\ UNCHANGED <<where, set, presets, form, saves, drives>>
PickDir ==
  /\ picker.on /\ picker.listing \notin {None, Empty}
  /\ form' = Chosen(picker.field, picker.listing) /\ picker' = NoPicker
  /\ UNCHANGED <<where, set, presets, saves, drives>>
ClosePicker == picker.on /\ picker' = NoPicker /\ UNCHANGED <<where, set, presets, form, saves, drives>>

FormNext ==
  \/ \E pc \in PCs : Pick(pc) \/ \E p \in Others \cup {NotSet} : SetElsewhere(pc, p)
  \/ Edit \/ Cancel
  \/ \E f \in Fields, d \in Dirs \cup {Empty} : Type(f, d)
  \/ \E m \in {"ats", "rfw"} : SetMode(m)
  \/ \E d \in Dirs : PickDrive(d)
  \/ \E ok \in BOOLEAN : DrivesKnown(ok) \/ DrivesSearched(ok)
  \/ Disconnected \/ Reconnected
  \/ \E i \in Presets \cup {None} : ApplyPreset(i)
  \/ NamePreset \/ UpdatePreset \/ RemovePreset
  \/ \E i \in Presets : SaveAsPreset(i)
  \/ \E v \in saves, ok \in BOOLEAN : PresetSaved(v, ok)
  \/ \E c \in BOOLEAN : Save(c)
  \/ \E v \in saves, missing \in BOOLEAN : Checked(v, missing)
  \/ \E v \in saves : Saved(v) \/ SaveFails(v)
  \/ Unset
  \/ \E f \in Fields : Browse(f)
  \/ PickDir \/ ClosePicker
  \/ \E d \in Dirs \cup {Empty} : GoTo(d)
  \/ \E ok \in BOOLEAN : Listed(ok)

FormSpec == FormInit /\ [][FormNext]_formVars

(***************************************************************************)
(* Properties.                                                             *)
(***************************************************************************)
\* The Result folder of the form is the one that was set for its PC, typed, picked or
\* taken from a preset last, or, where that is none, the one of that PC's own drive: what
\* is read late never takes its place, nor is it of the PC before.  The folder of the
\* images is likewise one of the two.
ResultIsChosen ==
  FormShown => /\ form.p.result = form.own.result \/ (form.own.result = Empty /\ form.p.result = Home[where.pc])
               /\ form.p.ref \in {form.own.ref, Home[where.pc]}

\* Does not hold (ResultsPage.tsx:488): a folder of images that was typed before the
\* drives were searched is replaced by the drive's, for only the Result folder is looked at.
RefIsChosen ==
  FormShown => form.p.ref = form.own.ref \/ (form.own.ref = Empty /\ form.p.ref = Home[where.pc])

\* Not so: a form is closed by its own save or cancel, or by picking another PC; the
\* save of the PC before closes the one that is being edited now (ResultsPage.tsx:283-286).
ClosedByItsOwn ==
  [][FormShown /\ where'.pc = where.pc /\ ~FormShown' =>
       \/ set[where.pc] # NotSet /\ ~form.busy /\ set' = set /\ saves' = saves
       \/ \E v \in saves \ saves' : v.pc = where.pc
       \/ set' # set /\ saves' = saves]_formVars

\* Bounds: one save is under way at a time, a folder is picked with none, presets are used
\* when the drives are known, both for a PC whose drive holds results, and of the PC that is
\* not shown only others' values are set.
FewSaves ==
  /\ Cardinality(saves) <= 1
  /\ picker.on => saves = {} /\ ~form.warn /\ form.preset = None
  /\ picker.on \/ form.naming \/ form.preset # None
       => drives = None /\ Home[where.pc] # Empty /\ set[where.pc] \in Others \cup {NotSet}
  /\ form.naming => ~form.warn /\ ~picker.on
  /\ \A i \in Presets : presets[i] \in Others \cup {NotSet}
  /\ \A p \in PCs \ {where.pc} : set[p] \in Others \cup {NotSet}
=============================================================================
