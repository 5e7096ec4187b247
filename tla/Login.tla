------------------------------- MODULE Login -------------------------------
(***************************************************************************)
(* Who is logged in in a tab of the dashboard (App.tsx, LoginGate.tsx,     *)
(* UserBox.tsx, AgentInstallGate.tsx).  A tab that opens tries, one after  *)
(* the other, the ticket of its address, the session token and the         *)
(* automatic-login token the browser keeps; then it shows the login form.  *)
(* Tokens stand for the user they were given to.                           *)
(***************************************************************************)
CONSTANTS Tabs, Users, Projects

VARIABLES tab,       \* what each tab of the browser shows
          stored,    \* the keys the browser keeps for all its tabs
          sessions,  \* the users whose session the server holds in memory
          kept,      \* the users whose automatic login the server accepts
          projects,  \* the projects of the server
          granted,   \* the users who may use the file page
          here,      \* an agent of this PC is in the server's list
          left       \* history: who changed the user here and did not log in since

loginVars == <<tab, stored, sessions, kept, projects, granted, here, left>>

Someone == Users \cup {"none"}
Pages == {"files", "settings"}
Idle == [at |-> "done", key |-> "none"]

LoginTypeOK ==
  /\ tab \in [Tabs -> [auth : Someone, page : Pages, menu : BOOLEAN,
                       boot : [at : {"sso", "me", "auto", "done"}, key : Someone],
                       project : Projects \cup {"none"}, busy : BOOLEAN,
                       loaded : BOOLEAN, skip : BOOLEAN, installed : BOOLEAN]]
  /\ stored \in [token : Someone, remember : Someone, skip : BOOLEAN]
  /\ sessions \subseteq Users /\ kept \subseteq Users /\ projects \subseteq Projects
  /\ granted \subseteq Users /\ here \in BOOLEAN /\ left \subseteq Users

(* The last key to try is the one of the automatic login.                  *)
AskRemembered(keys) ==
  IF keys.remember = "none" THEN Idle ELSE [at |-> "auto", key |-> keys.remember]

AskSession(keys) ==
  IF keys.token = "none" THEN AskRemembered(keys)
                         ELSE [at |-> "me", key |-> keys.token]

(* The form falls to a project that exists when the chosen one does not.   *)
Chosen(project, all) ==
  IF all = {} \/ project \in all THEN project ELSE CHOOSE p \in all : TRUE

(* A tab as it opens.                                                      *)
Opened(keys, ticket, skip) ==
  [auth |-> "none", page |-> "files", menu |-> FALSE,
   boot |-> IF ticket THEN [at |-> "sso", key |-> "none"] ELSE AskSession(keys),
   project |-> Chosen("none", projects), busy |-> FALSE,
   loaded |-> FALSE, skip |-> skip \/ keys.skip, installed |-> FALSE]

LoginInit ==
  /\ stored = [token |-> "none", remember |-> "none", skip |-> FALSE]
  /\ sessions = {} /\ kept = {} /\ left = {}
  /\ projects = Projects /\ granted = Users /\ here \in BOOLEAN
  /\ tab = [t \in Tabs |-> Opened(stored, FALSE, FALSE)]

(* What covers the dashboard: the guide to install an agent comes first.   *)
AgentGate(t) == tab[t].loaded /\ ~tab[t].skip /\ ~here
Checking(t) == \/ ~tab[t].loaded /\ tab[t].auth = "none"
               \/ tab[t].installed
               \/ ~AgentGate(t) /\ tab[t].auth = "none" /\ tab[t].boot # Idle
FormShown(t) == ~Checking(t) /\ ~AgentGate(t) /\ tab[t].auth = "none"
Dashboard(t) == ~Checking(t) /\ ~AgentGate(t) /\ tab[t].auth # "none"

Allowed(u) == IF u \in granted THEN Pages ELSE {"settings"}
VisiblePage(t) ==
  IF tab[t].page \in Allowed(tab[t].auth) THEN tab[t].page ELSE "settings"

(* The tab is opened or loaded again, with a ticket of APMS, with the      *)
(* switch that skips the guide, or plainly.                                *)
Open(t, ticket, skip) ==
  /\ stored' = [stored EXCEPT !.skip = @ \/ skip]
  /\ tab' = [tab EXCEPT ![t] = Opened(stored, ticket, skip)]
  /\ UNCHANGED <<sessions, kept, projects, granted, here, left>>

LoggedIn(t, u) == tab' = [tab EXCEPT ![t].auth = u, ![t].boot = Idle, ![t].busy = FALSE]

TicketAnswers(t, u) ==
  /\ tab[t].boot.at = "sso"
  /\ sessions' = sessions \cup {u}
  /\ stored' = [stored EXCEPT !.token = u]
  /\ left' = left \ {u}
  /\ LoggedIn(t, u)
  /\ UNCHANGED <<kept, projects, granted, here>>

TicketFails(t) ==
  /\ tab[t].boot.at = "sso"
  /\ tab' = [tab EXCEPT ![t].boot = AskSession(stored)]
  /\ UNCHANGED <<stored, sessions, kept, projects, granted, here, left>>

SessionAnswers(t) ==
  /\ tab[t].boot.at = "me" /\ tab[t].boot.key \in sessions
  /\ LoggedIn(t, tab[t].boot.key)
  /\ UNCHANGED <<stored, sessions, kept, projects, granted, here, left>>

(* A session that is gone, and a server that cannot be reached: both       *)
(* forget the session token and go on with the automatic login.            *)
SessionFails(t) ==
  /\ tab[t].boot.at = "me"
  /\ stored' = [stored EXCEPT !.token = "none"]
  /\ tab' = [tab EXCEPT ![t].boot = AskRemembered(stored)]
  /\ UNCHANGED <<sessions, kept, projects, granted, here, left>>

RememberedAnswers(t) ==
  /\ tab[t].boot.at = "auto" /\ tab[t].boot.key \in kept
  /\ sessions' = sessions \cup {tab[t].boot.key}
  /\ stored' = [stored EXCEPT !.token = tab[t].boot.key]
  /\ LoggedIn(t, tab[t].boot.key)
  /\ UNCHANGED <<kept, projects, granted, here, left>>

(* The key stays: the server may only be down for a moment.                *)
RememberedFails(t) ==
  /\ tab[t].boot.at = "auto"
  /\ tab' = [tab EXCEPT ![t].boot = Idle]
  /\ UNCHANGED <<stored, sessions, kept, projects, granted, here, left>>

Submit(t) ==
  /\ FormShown(t) /\ ~tab[t].busy /\ projects # {} /\ tab[t].project # "none"
  /\ tab' = [tab EXCEPT ![t].busy = TRUE]
  /\ UNCHANGED <<stored, sessions, kept, projects, granted, here, left>>

LoginAnswers(t, u, remember) ==
  /\ tab[t].busy /\ tab[t].project \in projects
  /\ sessions' = sessions \cup {u}
  /\ kept' = IF remember THEN kept \cup {u} ELSE kept
  /\ stored' = [stored EXCEPT !.token = u, !.remember = IF remember THEN u ELSE @]
  /\ left' = left \ {u}
  /\ LoggedIn(t, u)
  /\ UNCHANGED <<projects, granted, here>>

LoginFails(t) ==
  /\ tab[t].busy
  /\ tab' = [tab EXCEPT ![t].busy = FALSE]
  /\ UNCHANGED <<stored, sessions, kept, projects, granted, here, left>>

ToggleMenu(t) ==
  /\ Dashboard(t)
  /\ tab' = [tab EXCEPT ![t].menu = ~@]
  /\ UNCHANGED <<stored, sessions, kept, projects, granted, here, left>>

(* [Change user] of the account menu: the keys are forgotten at once, and  *)
(* the server is told, which may fail.                                     *)
Forgotten(keys) == [keys EXCEPT !.token = "none", !.remember = "none"]
Logout(t, reached) ==
  /\ Dashboard(t) /\ tab[t].menu
  /\ sessions' = IF reached THEN sessions \ {tab[t].auth} ELSE sessions
  /\ kept' = IF reached THEN kept \ {stored.remember} ELSE kept
  /\ stored' = Forgotten(stored)
  /\ left' = left \cup {tab[t].auth}
  /\ tab' = [tab EXCEPT ![t].auth = "none", ![t].menu = FALSE]
  /\ UNCHANGED <<projects, granted, here>>

(* The gear opens the settings and goes back from them.                    *)
Gear(t) ==
  /\ Dashboard(t)
  /\ tab' = [tab EXCEPT ![t].page = IF VisiblePage(t) # "settings" THEN "settings"
               ELSE IF "files" \in Allowed(tab[t].auth) THEN "files" ELSE "settings"]
  /\ UNCHANGED <<stored, sessions, kept, projects, granted, here, left>>

(* The first list of agents arrives.                                       *)
AgentsLoaded(t) ==
  /\ ~tab[t].loaded
  /\ tab' = [tab EXCEPT ![t].loaded = TRUE]
  /\ UNCHANGED <<stored, sessions, kept, projects, granted, here, left>>

(* The list of agents changes: where the guide was shown and an agent of   *)
(* this PC is in it now, a page opened over HTTP waits to be loaded again. *)
AgentComesOrGoes(http) ==
  /\ here' = ~here
  /\ tab' = [t \in Tabs |-> IF http /\ AgentGate(t) THEN [tab[t] EXCEPT !.installed = TRUE]
                                                   ELSE tab[t]]
  /\ UNCHANGED <<stored, sessions, kept, projects, granted, left>>

LoadsAgain(t) ==
  /\ tab[t].installed
  /\ tab' = [tab EXCEPT ![t] = Opened(stored, FALSE, FALSE)]
  /\ UNCHANGED <<stored, sessions, kept, projects, granted, here, left>>

Skip(t) ==
  /\ AgentGate(t) /\ ~tab[t].installed
  /\ stored' = [stored EXCEPT !.skip = TRUE]
  /\ tab' = [tab EXCEPT ![t].skip = TRUE]
  /\ UNCHANGED <<sessions, kept, projects, granted, here, left>>

(* [Manage] of the form: a project is made or deleted; the form follows.   *)
ProjectsChange(all) ==
  /\ all # projects
  /\ projects' = all
  /\ tab' = [t \in Tabs |-> [tab[t] EXCEPT !.project = Chosen(@, all)]]
  /\ UNCHANGED <<stored, sessions, kept, granted, here, left>>

GrantChanges(u) ==
  /\ granted' = IF u \in granted THEN granted \ {u} ELSE granted \cup {u}
  /\ UNCHANGED <<tab, stored, sessions, kept, projects, here, left>>

(* Sessions live in the server's memory; an automatic login runs out.      *)
ServerRestarts ==
  /\ sessions # {} /\ sessions' = {}
  /\ UNCHANGED <<tab, stored, kept, projects, granted, here, left>>

RememberRunsOut(u) ==
  /\ u \in kept /\ kept' = kept \ {u}
  /\ UNCHANGED <<tab, stored, sessions, projects, granted, here, left>>

LoginNext ==
  \/ \E t \in Tabs, ticket, skip \in BOOLEAN : Open(t, ticket, skip)
  \/ \E t \in Tabs, u \in Users : TicketAnswers(t, u)
  \/ \E t \in Tabs : TicketFails(t)
  \/ \E t \in Tabs : SessionAnswers(t)
  \/ \E t \in Tabs : SessionFails(t)
  \/ \E t \in Tabs : RememberedAnswers(t)
  \/ \E t \in Tabs : RememberedFails(t)
  \/ \E t \in Tabs : Submit(t)
  \/ \E t \in Tabs, u \in Users, remember \in BOOLEAN : LoginAnswers(t, u, remember)
  \/ \E t \in Tabs : LoginFails(t)
  \/ \E t \in Tabs : ToggleMenu(t)
  \/ \E t \in Tabs, reached \in BOOLEAN : Logout(t, reached)
  \/ \E t \in Tabs : Gear(t)
  \/ \E t \in Tabs : AgentsLoaded(t)
  \/ \E http \in BOOLEAN : AgentComesOrGoes(http)
  \/ \E t \in Tabs : LoadsAgain(t)
  \/ \E t \in Tabs : Skip(t)
  \/ \E all \in SUBSET Projects : ProjectsChange(all)
  \/ \E u \in Users : GrantChanges(u)
  \/ ServerRestarts
  \/ \E u \in Users : RememberRunsOut(u)

LoginSpec == LoginInit /\ [][LoginNext]_loginVars

(* Who changed the user in this browser does not come back in it without   *)
(* logging in again, however the page is loaded again and whatever the     *)
(* server still keeps of the session and the automatic login (logout in    *)
(* App.tsx tells the server without waiting for it).  It holds of a        *)
(* browser with one tab.                                                   *)
NobodyComesBack == \A t \in Tabs : tab[t].auth \notin left

(* Does not hold:                                                         *)
(* The guide to install an agent comes before the login (the comment of    *)
(* AgentInstallGate).                                                      *)
GuideBeforeLogin == \A t \in Tabs : AgentGate(t) => tab[t].auth = "none"
=============================================================================
