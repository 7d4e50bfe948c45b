---- MODULE RunTracker ----
(***************************************************************************)
(* The run records of src/voly/runtime/runs.py: one JSON file per run that *)
(* whoever knows something of the run loads, changes and replaces as a     *)
(* whole.  The replacement is atomic, the load and the replacement are     *)
(* two steps, and nothing keeps writers apart.  Beside the runs themselves *)
(* (a module that extends this one) clients ask to cancel a run and the    *)
(* watchdog marks silent ones as stale.                                    *)
(***************************************************************************)
EXTENDS Naturals

CONSTANTS
    Runs,     \* the task ids of runs, numbers: a later run has a greater one
    Threads,  \* writers that belong to runs
    Clients,  \* callers of request_cancel, each calls once
    Watchdog,
    Unlucky   \* writers whose reads and writes may fail on the disk

VARIABLES
    record,  \* record[r]: the file of r
    held,    \* held[<<w, r>>]: the record of r that w has loaded, not yet written
    silent,  \* runs whose heartbeat is older than the watchdog's threshold
    stale,   \* the stale runs the watchdog has listed and not yet marked
    asked    \* clients that have called

trackerVars == <<record, held, silent, stale, asked>>

Writers == Threads \cup Clients \cup {Watchdog}

Statuses == {"running", "completed", "failed", "stale"}

RunRecord == [status   : Statuses \cup {"absent"},
              workflow : BOOLEAN, \* a workflow's name is recorded
              cancel   : BOOLEAN] \* cancel_requested

Absent == [status |-> "absent", workflow |-> FALSE, cancel |-> FALSE]
Started == [Absent EXCEPT !.status = "running"]

TrackerInit == /\ record = [r \in Runs |-> Absent]
               /\ held = <<>>
               /\ silent = {}
               /\ stale = {}
               /\ asked = {}

Holds(w, r) == <<w, r>> \in DOMAIN held
Without(keys) == [k \in DOMAIN held \ keys |-> held[k]]

-----------------------------------------------------------------------------
(* One operation of a writer: load, then write a changed record.  No       *)
(* record, or one that cannot be read, ends it.                            *)

\* What _load_path may return.
Read(w, r) == {record[r]} \cup {Absent : u \in {w} \cap Unlucky}

Load(w, r) == /\ ~Holds(w, r)
              /\ \E rec \in Read(w, r) :
                    held' = [k \in DOMAIN held \cup {<<w, r>>} |->
                                IF k = <<w, r>> THEN rec ELSE held[k]]

\* _write swallows a failure of the disk.
Save(w, r, new) == \/ /\ record' = [record EXCEPT ![r] = new]
                      /\ silent' = silent \ {r}
                   \/ /\ w \in Unlucky
                      /\ UNCHANGED <<record, silent>>

Write(w, r, new) == /\ Holds(w, r)
                    /\ held' = Without({<<w, r>>})
                    /\ IF held[<<w, r>>] = Absent THEN UNCHANGED <<record, silent>>
                                                  ELSE Save(w, r, new)

-----------------------------------------------------------------------------
(* RunTracker.request_cancel *)

Cancellable(rec) == rec.status = "running" /\ rec.workflow

CancelLoad(c, r) ==
    /\ c \notin asked
    /\ asked' = asked \cup {c}
    /\ \/ Cancellable(record[r]) /\ Load(c, r)
       \/ (\E rec \in Read(c, r) : ~Cancellable(rec)) /\ UNCHANGED held
    /\ UNCHANGED <<record, silent, stale>>

CancelWrite(c, r) == /\ Holds(c, r)
                     /\ Write(c, r, [held[<<c, r>>] EXCEPT !.cancel = TRUE])
                     /\ UNCHANGED <<stale, asked>>

-----------------------------------------------------------------------------
(* Watchdog *)

\* Mutant of is_stale: spares runs that were asked to stop.
IsStale_NotCancelled(r) == record[r].status = "running" /\ ~record[r].cancel /\ r \in silent

IsStale(r) == record[r].status = "running" /\ r \in silent

\* Unreadable records are passed over.
Scan == /\ stale = {}
        /\ stale' \in SUBSET {r \in Runs : IsStale(r)} \ {{}}
        /\ \A r \in Runs \ stale' : IsStale(r) => Watchdog \in Unlucky
        /\ UNCHANGED <<record, held, silent, asked>>

\* The youngest first, as RunTracker.list sorts them.
Listed(r) == r \in stale /\ \A s \in stale : s <= r

ReapLoad(r) == /\ Listed(r)
               /\ Load(Watchdog, r)
               /\ UNCHANGED <<record, silent, stale, asked>>

\* finish does not look at the status it replaces.
ReapWrite(r) == /\ Listed(r)
                /\ Holds(Watchdog, r)
                /\ Write(Watchdog, r, [held[<<Watchdog, r>>] EXCEPT !.status = "stale"])
                /\ stale' = stale \ {r}
                /\ UNCHANGED asked

WatchdogStep == Scan \/ \E r \in Runs : ReapLoad(r) \/ ReapWrite(r)
====
