------------------------------ MODULE ModelCache ------------------------------
(***************************************************************************)
(* How a page gets its model: loadRemote and fetchRemote of helpers.js and  *)
(* the buttons of loadWhisper (src/stream2.wasm/index.html).  A load looks  *)
(* for the model in the browser's database, else asks the user, downloads   *)
(* the model and stores it, each in a callback of its own.  storeFS, the    *)
(* page's cbReady, is up to the module that uses this one.                  *)
(***************************************************************************)
EXTENDS FiniteSets

CONSTANT Models  \* bound: of each, one load at a time is on its way

VARIABLES
  lpc,       \* what the load of a model waits for
  stored,    \* the models in the database
  offered,   \* the buttons that choose a model are shown
  silent     \* history: since the last click a load ended without a callback

loadVars == <<lpc, stored, offered, silent>>

Pending == {m \in Models : lpc[m] # "none"}

LoadInit ==
  /\ lpc = [m \in Models |-> "none"]
  /\ stored \in SUBSET Models
  /\ offered = TRUE /\ silent = FALSE

LoadGoto(m, there) == lpc' = [lpc EXCEPT ![m] = there]

\* A faulty variant of Cancel, used by no specification: the buttons stay hidden.
FaultyCancel(m) == LoadGoto(m, "none") /\ UNCHANGED <<offered, silent>>

\* cbCancel: the buttons are shown again.
Cancel(m) == LoadGoto(m, "none") /\ offered' = TRUE /\ UNCHANGED silent

\* loadWhisper hides the buttons and opens the database.
Choose(m) ==
  /\ offered /\ lpc[m] = "none"
  /\ LoadGoto(m, "open")
  /\ offered' = FALSE /\ silent' = FALSE
  /\ UNCHANGED stored

\* The database opens; or it does not.  onblocked calls cbCancel, but the database
\* may open all the same, later.
Open(m) ==
  /\ lpc[m] = "open"
  /\ \/ LoadGoto(m, "get") /\ UNCHANGED <<offered, silent>>
     \/ Cancel(m)
     \/ UNCHANGED <<lpc, silent>> /\ offered' = TRUE
  /\ UNCHANGED stored

\* The model is not there and the user is asked; or reading fails.
Missed(m) ==
  /\ lpc[m] = "get"
  /\ \/ m \notin stored /\ LoadGoto(m, "fetch") /\ UNCHANGED <<offered, silent>>
     \/ Cancel(m)
  /\ UNCHANGED stored

\* The download is complete; or it fails, or the database does not open again, and
\* neither callback is called.
Fetched(m) ==
  /\ lpc[m] = "fetch"
  /\ \/ LoadGoto(m, "put") /\ UNCHANGED silent
     \/ LoadGoto(m, "none") /\ silent' = TRUE
  /\ UNCHANGED <<stored, offered>>

NotStored(m) ==
  /\ lpc[m] = "put"
  /\ Cancel(m)
  /\ UNCHANGED stored

\* cbReady, with what was found or what was stored now.
Ready(m) ==
  /\ \/ lpc[m] = "get" /\ m \in stored
     \/ lpc[m] = "put"
  /\ LoadGoto(m, "none")
  /\ stored' = stored \cup {m}
  /\ UNCHANGED <<offered, silent>>

\* What is no user's choice and does not end in cbReady.
LoadStep(m) == Open(m) \/ Missed(m) \/ Fetched(m) \/ NotStored(m)

LoadTypeOK ==
  /\ lpc \in [Models -> {"none", "open", "get", "fetch", "put"}]
  /\ stored \subseteq Models
  /\ {offered, silent} \subseteq BOOLEAN

=============================================================================
