------------------------------ MODULE WorkerHost ------------------------------
(***************************************************************************)
(* The editor extension (extension.js) and its workers: every Debug        *)
(* operation of a window runs in a worker thread (src/worker-runner.js,    *)
(* src/debug-worker.js) that ends by writing a session to the store, which *)
(* the windows of one workspace share.  A window runs one operation at a   *)
(* time, remembers the last result, and lets the user pick a stored        *)
(* session, look at it and confirm an operation on it, which the worker    *)
(* then reads again.                                                       *)
(*                                                                         *)
(* Writer w of the store is one operation.  What the operation does before *)
(* it writes is DebugSession; here it may fail at that point.              *)
(***************************************************************************)
EXTENDS SessionStore

CONSTANTS
  Window,     \* the windows among Reader are those whose user picks sessions
  WindowOf,   \* WindowOf[w]: the window operation w is started in
  OnStored,   \* operations on a stored session: resume, apply, rollback
  HostFaults

HostFaultKinds ==
  {"start",   \* the worker thread cannot be created
   "throw",   \* the operation fails before it writes a session
   "die",     \* the thread ends without an answer
   "reload"}  \* the window is closed or reloaded, and its workers with it

ASSUME HostConstants ==
  /\ WindowOf \in [Writer -> Window] /\ OnStored \subseteq Writer
  /\ OnStored \subseteq Reader /\ Reader \subseteq Window \cup OnStored
  /\ Window \cap Writer = {} /\ \A w \in OnStored : WindowOf[w] \in Reader
  /\ HostFaults \subseteq HostFaultKinds

VARIABLES
  busy,     \* busy[h]: workerBusy
  last,     \* last[h]: lastResult, by the operation that made it
  call,     \* call[w]: the promise of executeWorker
  thread,   \* thread[w]: the worker thread
  events,   \* events[w]: events of the thread the window has not seen yet
  shown     \* shown[w]: the session the user confirmed operation w on

host == <<busy, last, call, thread, events, shown>>
hostvars == <<vars, host>>

HostInit ==
  /\ Init
  /\ busy = [h \in Window |-> FALSE]
  /\ last = [h \in Window |-> NoWriter]
  /\ call = [w \in Writer |-> "idle"]
  /\ thread = [w \in Writer |-> "none"]
  /\ events = [w \in Writer |-> {}]
  /\ shown = [w \in Writer |-> NoWriter]

-------------------------------------------------------------------------------
(* The window: chooseSession, the confirmation and executeWorker           *)

\* A stored session is picked from the list and read, and stays on the screen.
Pick(h) ==
  /\ ReadFile(h) \/ \E i \in Id : Lstat(h, i)
  /\ UNCHANGED host

Shows(h) == reader[h].returned

ReleaseAnyway(h) == FALSE        \* faulty variant: the check is inside the try block
BusyAfterRefusal(h) == busy[h]

\* if (workerBusy) throw EDEBUGBUSY
RefuseBusy(h, w) ==
  /\ busy[h]
  /\ call' = [call EXCEPT ![w] = "refused"]
  /\ busy' = [busy EXCEPT ![h] = BusyAfterRefusal(h)]
  /\ UNCHANGED <<thread, shown>>

StartWorker(h, w) ==
  /\ ~busy[h]
  /\ busy' = [busy EXCEPT ![h] = TRUE]
  /\ call' = [call EXCEPT ![w] = "pending"]
  /\ thread' = [thread EXCEPT ![w] = "running"]
  /\ shown' = IF w \in OnStored THEN [shown EXCEPT ![w] = Shows(h)] ELSE shown

\* new Worker throws: the promise is rejected and the window is free at once
CannotStart(h, w) ==
  /\ "start" \in HostFaults /\ ~busy[h]
  /\ call' = [call EXCEPT ![w] = "rejected"]
  /\ UNCHANGED <<busy, thread, shown>>

Invoke(h, w) ==
  /\ WindowOf[w] = h /\ call[w] = "idle"
  /\ w \in OnStored => Shows(h) # NoWriter
  /\ RefuseBusy(h, w) \/ StartWorker(h, w) \/ CannotStart(h, w)
  /\ UNCHANGED <<vars, last, events>>

-------------------------------------------------------------------------------
(* The worker thread                                                       *)

HasItsInput(w) == w \in OnStored => reader[w].returned # NoWriter

\* readSession of the session the operation is on
ReadInput(w) ==
  /\ thread[w] = "running" /\ ~HasItsInput(w)
  /\ ReadFile(w) \/ Lstat(w, IdOf[shown[w]])
  /\ UNCHANGED host

Write(w) ==
  /\ thread[w] = "running" /\ HasItsInput(w)
  /\ WriterStep(w) \/ FillFails(w) \/ UnlinkFails(w)
  /\ UNCHANGED host

Send(w, e) == events' = [events EXCEPT ![w] = @ \cup {e}]
Turn(w, state) == thread' = [thread EXCEPT ![w] = state]

\* postMessage of the result, or of the error writeSession threw
Post(w) ==
  /\ thread[w] = "running" /\ pc[w] \in {"done", "aliased"}
  /\ Send(w, IF result[w] = "ok" THEN "ok" ELSE "failed")
  /\ Turn(w, "ending")
  /\ UNCHANGED <<vars, busy, last, call, shown>>

\* any other error of the operation, caught and posted
Throw(w) ==
  /\ thread[w] = "running" /\ pc[w] = "exists"
  /\ "throw" \in HostFaults
  /\ Send(w, "failed")
  /\ Turn(w, "ending")
  /\ UNCHANGED <<vars, busy, last, call, shown>>

\* The thread runs out of memory (an error event, then exit) or is ended.
Die(w) ==
  /\ "die" \in HostFaults /\ thread[w] = "running"
  /\ IF pc[w] \in {"done", "aliased"} THEN UNCHANGED vars ELSE Crash(w)
  /\ \/ Send(w, "error") /\ Turn(w, "ending")
     \/ Send(w, "exit") /\ Turn(w, "over")
  /\ UNCHANGED <<busy, last, call, shown>>

Exit(w) ==
  /\ thread[w] = "ending"
  /\ Send(w, "exit")
  /\ Turn(w, "over")
  /\ UNCHANGED <<vars, busy, last, call, shown>>

-------------------------------------------------------------------------------
(* runIsolatedDebug: the events settle one promise                         *)

AnyMessage(e) == IF e \in {"ok", "failed"} THEN "resolved" ELSE "rejected"  \* faulty variant
Answered(e) == IF e = "ok" THEN "resolved" ELSE "rejected"

NotOnExit(e) == e # "exit"       \* faulty variant: no handler for exit
Handled(e) == e \in {"ok", "failed", "error", "exit"}

\* The first event settles the promise (settled), and with it the finally of
\* executeWorker and the assignment to lastResult; exit comes after the others.
Deliver(w, e) ==
  /\ e \in events[w]
  /\ e = "exit" => events[w] = {"exit"}
  /\ events' = [events EXCEPT ![w] = @ \ {e}]
  /\ IF call[w] = "pending" /\ Handled(e)
     THEN /\ call' = [call EXCEPT ![w] = Answered(e)]
          /\ busy' = [busy EXCEPT ![WindowOf[w]] = FALSE]
          /\ last' = IF Answered(e) = "resolved" THEN [last EXCEPT ![WindowOf[w]] = w] ELSE last
     ELSE UNCHANGED <<busy, last, call>>
  /\ UNCHANGED <<vars, thread, shown>>

\* The window goes, with its workers in the middle of whatever they were doing,
\* and starts afresh.
Reload(h) ==
  LET mine == {w \in Writer : WindowOf[w] = h /\ thread[w] # "none"} IN
  /\ "reload" \in HostFaults
  /\ busy' = [busy EXCEPT ![h] = FALSE]
  /\ last' = [last EXCEPT ![h] = NoWriter]
  /\ call' = [w \in Writer |-> IF w \in mine /\ call[w] = "pending" THEN "lost" ELSE call[w]]
  /\ thread' = [w \in Writer |-> IF w \in mine THEN "over" ELSE thread[w]]
  /\ events' = [w \in Writer |-> IF w \in mine THEN {} ELSE events[w]]
  /\ UNCHANGED <<vars, shown>>

ThreadStep(w) == ReadInput(w) \/ Write(w) \/ Post(w) \/ Throw(w) \/ Exit(w)
DeliverAny(w) == \E e \in {"ok", "failed", "error", "exit"} : Deliver(w, e)

HostNext ==
  \/ \E w \in Writer : Invoke(WindowOf[w], w) \/ ThreadStep(w) \/ Die(w) \/ DeliverAny(w)
  \/ \E h \in Window \cap Reader : Pick(h)
  \/ \E h \in Window : Reload(h)

HostSpec == HostInit /\ [][HostNext]_hostvars
\* A running thread goes on until it ends (commands and model calls have
\* timeouts), and the event loop delivers what was posted.
FairHostSpec ==
  HostSpec /\ \A w \in Writer : WF_hostvars(ThreadStep(w)) /\ WF_hostvars(DeliverAny(w))

-------------------------------------------------------------------------------
HostTypeOK ==
  /\ TypeOK
  /\ busy \in [Window -> BOOLEAN]
  /\ last \in [Window -> Writer \cup {NoWriter}]
  /\ call \in [Writer -> {"idle", "refused", "pending", "resolved", "rejected", "lost"}]
  /\ thread \in [Writer -> {"none", "running", "ending", "over"}]
  /\ events \in [Writer -> SUBSET {"ok", "failed", "error", "exit"}]
  /\ shown \in [Writer -> Writer \cup {NoWriter}]

\* What a window remembers as its last result is a session the store has, in
\* full, under the id the window will name to resume, apply or roll it back; and
\* it can be read, unless its temporary name could not be removed.
LastResultIsStored ==
  \A h \in Window :
    LET w == last[h] IN
    w # NoWriter => /\ Linked(w) /\ content[w] = "complete"
                    /\ pc[w] = "done" => ~Refuses(IdOf[w])

\* The session an operation works on is, in full, the one the user was shown
\* when confirming it (extension.js:26-27), however many writers drew its id.
ConfirmedIsApplied ==
  \A w \in OnStored :
    LET s == reader[w].returned IN
    s # NoWriter => s = shown[w] /\ content[s] = "complete"

\* The busy flag tells the truth, whatever order answers, deaths, refusals and
\* new operations come in: it is set exactly while one operation is pending.
BusyIsTrue ==
  \A h \in Window :
    LET pending == {w \in Writer : WindowOf[w] = h /\ call[w] = "pending"}
    IN /\ busy[h] <=> pending # {}
       /\ \A v, w \in pending : v = w

\* No operation leaves its window waiting: whatever becomes of its thread, every
\* promise is settled (time and again none is pending, and each pends only once).
EveryCallSettles == []<>(\A w \in Writer : call[w] # "pending")

\* Operations that draw the same id do not ruin it for each other: an id that
\* somebody is writing ends up stored and readable, unless one of its writers
\* failed or died, whatever happens to the writers of other ids.
Failed(i) ==
  \E w \in Writer : /\ IdOf[w] = i
                    /\ \/ result[w] \in {"error", "crashed"} \/ pc[w] = "aliased"
                       \/ thread[w] = "over" /\ pc[w] # "done"
NobodyLosesAnId ==
  []<>(\A w \in Writer : pc[w] # "exists" => ~Refuses(IdOf[w]) \/ Failed(IdOf[w]))
===============================================================================
