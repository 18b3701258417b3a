--------------------------- MODULE WorkerHost_proofs ---------------------------
(***************************************************************************)
(* The safety of the editor's windows and workers over the session store,  *)
(* for any number of windows and operations, and that the store stays a    *)
(* registry under them.                                                    *)
(*                                                                         *)
(* What lastResult and the confirmed session are good for hangs on nothing *)
(* being taken back: an "ok" a thread posted is the answer of a write that *)
(* returned (OksHold), and the session that was on the screen when an      *)
(* operation was confirmed is still the one under its id when the worker   *)
(* reads it (InputsHold), because stored sessions stay (Kept).  That every *)
(* call settles is left to TLC; proved here is what makes it true: whoever *)
(* waits has somebody to wait for, and the work of a thread runs out.      *)
(***************************************************************************)
EXTENDS WorkerHost, SessionStore_proofs

\* A call that was not made has no thread, and a pending one has.
CallsHold ==
  \A w \in Writer :
    /\ call[w] = "idle" => thread[w] = "none"
    /\ call[w] = "pending" => thread[w] # "none"
    /\ thread[w] = "none" => events[w] = {}

OksHold ==
  /\ \A w \in Writer : "ok" \in events[w] => result[w] = "ok"
  /\ \A h \in Window : last[h] # NoWriter => result[last[h]] = "ok"

InputsHold ==
  \A w \in OnStored :
    /\ thread[w] = "none" => reader[w].step = "lstat" /\ reader[w].returned = NoWriter
    /\ thread[w] # "none" => shown[w] # NoWriter /\ Linked(shown[w])
    /\ reader[w].step = "read" => reader[w].id = IdOf[shown[w]]
    /\ reader[w].returned # NoWriter => reader[w].returned = shown[w]

HostTypes ==
  /\ busy \in [Window -> BOOLEAN]
  /\ last \in [Window -> Writer \cup {NoWriter}]
  /\ call \in [Writer -> {"idle", "refused", "pending", "resolved", "rejected", "lost"}]
  /\ thread \in [Writer -> {"none", "running", "ending", "over"}]
  /\ events \in [Writer -> SUBSET {"ok", "failed", "error", "exit"}]
  /\ shown \in [Writer -> Writer \cup {NoWriter}]

\* BusyIsTrue without its set
OnePending ==
  /\ \A w \in Writer : call[w] = "pending" => busy[WindowOf[w]]
  /\ \A h \in Window : busy[h] => \E w \in Writer : WindowOf[w] = h /\ call[w] = "pending"
  /\ \A v, w \in Writer : WindowOf[v] = WindowOf[w] /\ call[v] = "pending" /\ call[w] = "pending"
                          => v = w

HInv == SInv /\ HostTypes /\ CallsHold /\ OksHold /\ InputsHold /\ OnePending

-------------------------------------------------------------------------------
LEMMA InitHInv == HostInit => HInv
<1> SUFFICES ASSUME HostInit PROVE HInv
  OBVIOUS
<1>1. SInv
  BY InitSInv DEF HostInit
<1>2. HostTypes /\ CallsHold /\ OksHold /\ OnePending
  BY HostConstants DEF HostInit, HostTypes, CallsHold, OksHold, OnePending
<1>3. InputsHold
  BY HostConstants DEF HostInit, Init, InputsHold, Returned
<1> QED
  BY <1>1, <1>2, <1>3 DEF HInv

\* Whatever the store does, answers and the sessions on the screen stay good.
LEMMA StoreMoves ==
  ASSUME HInv, [Next]_vars, UNCHANGED host,
         \A w \in OnStored : reader'[w] # reader[w] =>
           /\ thread[w] # "none"
           /\ reader'[w].step = "read" => reader'[w].id = IdOf[shown[w]]
           /\ reader'[w].returned # NoWriter => reader'[w].returned = shown[w]
  PROVE  HInv'
<1>1. SInv' /\ Kept
  BY NextSInv DEF HInv
<1>2. HostTypes' /\ CallsHold' /\ OnePending'
  BY DEF HInv, host, HostTypes, CallsHold, OnePending
<1>3. OksHold'
  BY <1>1 DEF HInv, HostTypes, OksHold, Kept, host
<1>4. InputsHold'
  <2> SUFFICES ASSUME NEW w \in OnStored
               PROVE  /\ thread'[w] = "none" =>
                           reader'[w].step = "lstat" /\ reader'[w].returned = NoWriter
                      /\ thread'[w] # "none" => shown'[w] # NoWriter /\ Linked(shown[w])'
                      /\ reader'[w].step = "read" => reader'[w].id = IdOf[shown'[w]]
                      /\ reader'[w].returned # NoWriter => reader'[w].returned = shown'[w]
    BY DEF InputsHold
  <2>1. w \in Writer /\ shown'[w] = shown[w] /\ thread'[w] = thread[w]
        /\ shown[w] \in Writer \cup {NoWriter}
    BY HostConstants DEF HInv, HostTypes, host
  <2>2. thread[w] # "none" => shown[w] # NoWriter /\ Linked(shown[w])'
    BY <1>1, <2>1 DEF HInv, InputsHold, Kept
  <2> QED
    BY <2>1, <2>2 DEF HInv, InputsHold, host
<1> QED
  BY <1>1, <1>2, <1>3, <1>4 DEF HInv

\* The host moves and the store stays as it is.
LEMMA StoreStays ==
  ASSUME SInv, UNCHANGED vars
  PROVE  SInv' /\ \A w \in Writer : Linked(w)' <=> Linked(w)
BY DEF vars, SInv, TypeOK, LinksHold, AnswersHold, ReadersHold, Linked

LEMMA PickHInv ==
  ASSUME HInv, NEW h \in Window \cap Reader, Pick(h)
  PROVE  HInv'
<1>1. [Next]_vars /\ UNCHANGED host
  BY DEF Pick, Next
<1>2. \A w \in OnStored : reader'[w] = reader[w]
  BY HostConstants DEF Pick, ReadFile, Lstat, HInv, SInv, TypeOK
<1> QED
  BY <1>1, <1>2, StoreMoves

\* The worker looks up the id of what was confirmed, and finds that session.
LEMMA ReadInputHInv ==
  ASSUME HInv, NEW w \in Writer, ReadInput(w)
  PROVE  HInv'
<1>1. w \in OnStored /\ w \in Reader /\ thread[w] = "running" /\ UNCHANGED host
  BY HostConstants DEF ReadInput, HasItsInput
<1>2. shown[w] \in Writer /\ Linked(shown[w]) /\ IdOf[shown[w]] \in Id
  BY <1>1, StoreConstants DEF HInv, HostTypes, InputsHold
<1>3. CASE ReadFile(w)
  <2>1. reader' = [reader EXCEPT ![w] = Returned(target[reader[w].id])]
    BY <1>3 DEF ReadFile
  <2>2. target[reader[w].id] = shown[w]
    BY <1>1, <1>2, <1>3 DEF HInv, InputsHold, ReadFile, Linked
  <2>3. Returned(shown[w]).step = "lstat" /\ Returned(shown[w]).returned = shown[w]
    BY DEF Returned
  <2>4. \A v \in OnStored : reader'[v] # reader[v] => v = w /\ reader'[v] = Returned(shown[w])
    BY <1>1, <2>1, <2>2, HostConstants DEF HInv, SInv, TypeOK
  <2>5. Next
    BY <1>1, <1>3 DEF Next
  <2> QED
    BY <1>1, <2>3, <2>4, <2>5, StoreMoves
<1>4. CASE Lstat(w, IdOf[shown[w]])
  <2> DEFINE s == IF Refuses(IdOf[shown[w]]) THEN Returned(NoWriter) ELSE Reading(IdOf[shown[w]])
  <2>1. reader' = [reader EXCEPT ![w] = s]
    BY <1>4 DEF Lstat
  <2>2. s.returned = NoWriter /\ (s.step = "read" => s.id = IdOf[shown[w]])
    BY DEF Returned, Reading
  <2> HIDE DEF s
  <2>3. \A v \in OnStored : reader'[v] # reader[v] => v = w /\ reader'[v] = s
    BY <1>1, <2>1, HostConstants DEF HInv, SInv, TypeOK
  <2>4. Next
    BY <1>1, <1>2, <1>4 DEF Next
  <2> QED
    BY <1>1, <2>2, <2>3, <2>4, StoreMoves
<1> QED
  BY <1>3, <1>4 DEF ReadInput

LEMMA WriteHInv ==
  ASSUME HInv, NEW w \in Writer, Write(w)
  PROVE  HInv'
<1>1. [Next]_vars /\ UNCHANGED host
  BY DEF Write, Next
<1>2. reader' = reader
  BY DEF Write, WriterStep, Exists, Create, Fill, FillFails, Link, Unlink, UnlinkFails
<1> QED
  BY <1>1, <1>2, StoreMoves

-------------------------------------------------------------------------------
\* executeWorker: refused, started or rejected at once.
LEMMA InvokeHInv ==
  ASSUME HInv, NEW w \in Writer, Invoke(WindowOf[w], w)
  PROVE  HInv'
<1> DEFINE h == WindowOf[w]
<1>1. h \in Window /\ call[w] = "idle" /\ UNCHANGED <<vars, last, events>> /\ thread[w] = "none"
  BY HostConstants DEF Invoke, HInv, CallsHold
<1>2. SInv' /\ \A v \in Writer : Linked(v)' <=> Linked(v)
  BY <1>1, StoreStays DEF HInv
<1>3. OksHold'
  BY <1>1 DEF HInv, OksHold, vars
<1>4. CASE RefuseBusy(h, w)
  <2>1. /\ busy' = busy /\ UNCHANGED <<thread, shown>>
        /\ call' = [call EXCEPT ![w] = "refused"]
    BY <1>4 DEF RefuseBusy, BusyAfterRefusal, HInv, HostTypes
  <2>2. HostTypes' /\ CallsHold' /\ OnePending'
    BY <1>1, <2>1, HostConstants DEF HInv, HostTypes, CallsHold, OnePending
  <2>3. InputsHold'
    BY <1>1, <1>2, <2>1, HostConstants DEF HInv, HostTypes, InputsHold, vars
  <2> QED
    BY <1>2, <1>3, <2>2, <2>3 DEF HInv
<1>5. CASE StartWorker(h, w)
  <2>1. /\ ~busy[h] /\ busy' = [busy EXCEPT ![h] = TRUE]
        /\ call' = [call EXCEPT ![w] = "pending"] /\ thread' = [thread EXCEPT ![w] = "running"]
        /\ shown' = IF w \in OnStored THEN [shown EXCEPT ![w] = Shows(h)] ELSE shown
    BY <1>5 DEF StartWorker
  <2>2. w \in OnStored => h \in Reader /\ Shows(h) \in Writer /\ Linked(Shows(h))
    BY <1>1, HostConstants DEF Invoke, Shows, HInv, SInv, TypeOK, ReadersHold
  <2>3. HostTypes'
    BY <1>1, <2>1, <2>2 DEF HInv, HostTypes
  <2>4. CallsHold'
    BY <1>1, <2>1 DEF HInv, HostTypes, CallsHold
  <2>5. OnePending'
    <3>1. \A v \in Writer : WindowOf[v] = h => call[v] # "pending"
      BY <2>1 DEF HInv, OnePending
    <3>2. \A v \in Writer : call'[v] = "pending" <=> call[v] = "pending" \/ v = w
      BY <2>1 DEF HInv, HostTypes
    <3>3. \A g \in Window : busy'[g] <=> busy[g] \/ g = h
      BY <1>1, <2>1 DEF HInv, HostTypes
    <3>4. \A v \in Writer : WindowOf[v] \in Window
      BY HostConstants
    <3> QED
      BY <1>1, <3>1, <3>2, <3>3, <3>4 DEF HInv, OnePending
  <2>6. InputsHold'
    <3> SUFFICES ASSUME NEW v \in OnStored
                 PROVE  /\ thread'[v] = "none" =>
                             reader'[v].step = "lstat" /\ reader'[v].returned = NoWriter
                        /\ thread'[v] # "none" => shown'[v] # NoWriter /\ Linked(shown[v])'
                        /\ reader'[v].step = "read" => reader'[v].id = IdOf[shown'[v]]
                        /\ reader'[v].returned # NoWriter => reader'[v].returned = shown'[v]
      BY DEF InputsHold
    <3>1. v \in Writer /\ reader' = reader /\ target' = target
      BY <1>1, HostConstants DEF vars
    <3>2. CASE v = w
      <4>1. shown'[v] = Shows(h) /\ Shows(h) \in Writer /\ Linked(Shows(h))
        BY <2>1, <2>2, <3>1, <3>2 DEF HInv, HostTypes
      <4>2. Linked(shown[v])'
        BY <3>1, <4>1 DEF Linked
      <4> QED
        BY <1>1, <3>1, <3>2, <4>1, <4>2, StoreConstants DEF HInv, InputsHold
    <3>3. CASE v # w
      BY <1>2, <2>1, <3>1, <3>3 DEF HInv, HostTypes, InputsHold
    <3> QED
      BY <3>2, <3>3
  <2> QED
    BY <1>2, <1>3, <2>3, <2>4, <2>5, <2>6 DEF HInv
<1>6. CASE CannotStart(h, w)
  <2>1. UNCHANGED <<busy, thread, shown>> /\ call' = [call EXCEPT ![w] = "rejected"]
    BY <1>6 DEF CannotStart
  <2>2. HostTypes' /\ CallsHold' /\ OnePending'
    BY <1>1, <2>1, HostConstants DEF HInv, HostTypes, CallsHold, OnePending
  <2>3. InputsHold'
    BY <1>1, <1>2, <2>1, HostConstants DEF HInv, HostTypes, InputsHold, vars
  <2> QED
    BY <1>2, <1>3, <2>2, <2>3 DEF HInv
<1> QED
  BY <1>4, <1>5, <1>6 DEF Invoke

-------------------------------------------------------------------------------
\* A thread posts something, true if it is "ok", and goes on to end.
LEMMA ThreadPosts ==
  ASSUME HInv, NEW w \in Writer, SInv', Kept, reader' = reader,
         UNCHANGED <<busy, last, call, shown>>,
         NEW e \in {"ok", "failed", "error", "exit"}, Send(w, e),
         e = "ok" => result[w] = "ok",
         NEW state \in {"ending", "over"}, Turn(w, state), thread[w] # "none"
  PROVE  HInv'
<1>1. HostTypes'
  BY DEF HInv, HostTypes, Send, Turn
<1>2. CallsHold'
  BY DEF HInv, HostTypes, CallsHold, Send, Turn
<1>3. OksHold'
  BY DEF HInv, HostTypes, OksHold, Send, Kept
<1>4. OnePending'
  BY DEF HInv, OnePending
<1>5. InputsHold'
  <2> SUFFICES ASSUME NEW v \in OnStored
               PROVE  /\ thread'[v] = "none" =>
                           reader'[v].step = "lstat" /\ reader'[v].returned = NoWriter
                      /\ thread'[v] # "none" => shown'[v] # NoWriter /\ Linked(shown[v])'
                      /\ reader'[v].step = "read" => reader'[v].id = IdOf[shown'[v]]
                      /\ reader'[v].returned # NoWriter => reader'[v].returned = shown'[v]
    BY DEF InputsHold
  <2>1. v \in Writer /\ shown[v] \in Writer \cup {NoWriter}
        /\ (thread'[v] = "none" <=> thread[v] = "none")
    BY HostConstants DEF HInv, HostTypes, Turn
  <2>2. shown[v] \in Writer /\ Linked(shown[v]) => Linked(shown[v])'
    BY DEF Kept, Linked
  <2> QED
    BY <2>1, <2>2 DEF HInv, InputsHold
<1> QED
  BY <1>1, <1>2, <1>3, <1>4, <1>5 DEF HInv

LEMMA StayKept ==
  ASSUME HInv, UNCHANGED vars
  PROVE  SInv' /\ Kept /\ reader' = reader
<1>1. [Next]_vars
  OBVIOUS
<1> QED
  BY <1>1, NextSInv DEF HInv, vars

LEMMA PostThrowExitHInv ==
  ASSUME HInv, NEW w \in Writer, Post(w) \/ Throw(w) \/ Exit(w)
  PROVE  HInv'
<1>1. UNCHANGED vars /\ UNCHANGED <<busy, last, call, shown>> /\ thread[w] # "none"
  BY DEF Post, Throw, Exit
<1>2. SInv' /\ Kept /\ reader' = reader
  BY <1>1, StayKept
<1>3. CASE Post(w)
  <2> DEFINE e == IF result[w] = "ok" THEN "ok" ELSE "failed"
  <2>1. Send(w, e) /\ Turn(w, "ending") /\ e \in {"ok", "failed", "error", "exit"}
        /\ (e = "ok" => result[w] = "ok")
    BY <1>3 DEF Post
  <2> HIDE DEF e
  <2> QED
    BY <1>1, <1>2, <2>1, ThreadPosts
<1>4. CASE Throw(w)
  BY <1>1, <1>2, <1>4, ThreadPosts DEF Throw
<1>5. CASE Exit(w)
  BY <1>1, <1>2, <1>5, ThreadPosts DEF Exit
<1> QED
  BY <1>3, <1>4, <1>5

LEMMA DieHInv ==
  ASSUME HInv, NEW w \in Writer, Die(w)
  PROVE  HInv'
<1>1. SInv' /\ Kept /\ reader' = reader
  <2>1. CASE UNCHANGED vars
    BY <2>1, StayKept
  <2>2. CASE Crash(w)
    BY <2>2, CrashSInv DEF HInv, Crash
  <2> QED
    BY <2>1, <2>2 DEF Die
<1>2. UNCHANGED <<busy, last, call, shown>> /\ thread[w] # "none"
  BY DEF Die
<1>3. CASE Send(w, "error") /\ Turn(w, "ending")
  BY <1>1, <1>2, <1>3, ThreadPosts
<1>4. CASE Send(w, "exit") /\ Turn(w, "over")
  BY <1>1, <1>2, <1>4, ThreadPosts
<1> QED
  BY <1>3, <1>4 DEF Die

-------------------------------------------------------------------------------
\* The first event settles the one pending promise of the window.
LEMMA DeliverHInv ==
  ASSUME HInv, NEW w \in Writer, NEW e \in {"ok", "failed", "error", "exit"}, Deliver(w, e)
  PROVE  HInv'
<1> DEFINE h == WindowOf[w]
<1>1. /\ h \in Window /\ UNCHANGED vars /\ UNCHANGED <<thread, shown>>
      /\ e \in events[w] /\ events' = [events EXCEPT ![w] = @ \ {e}]
  BY HostConstants DEF Deliver
<1>2. SInv' /\ Kept /\ reader' = reader
  BY <1>1, StayKept
<1>3. InputsHold'
  BY <1>1, StoreStays, HostConstants DEF HInv, HostTypes, InputsHold, vars
<1>4. CASE ~(call[w] = "pending" /\ Handled(e))
  <2>1. UNCHANGED <<busy, last, call>>
    BY <1>4 DEF Deliver
  <2>2. HostTypes' /\ CallsHold' /\ OksHold' /\ OnePending'
    BY <1>1, <2>1 DEF HInv, HostTypes, CallsHold, OksHold, OnePending, vars
  <2> QED
    BY <1>2, <1>3, <2>2 DEF HInv
<1>5. CASE call[w] = "pending" /\ Handled(e)
  <2>1. /\ call' = [call EXCEPT ![w] = Answered(e)] /\ busy' = [busy EXCEPT ![h] = FALSE]
        /\ last' = IF Answered(e) = "resolved" THEN [last EXCEPT ![h] = w] ELSE last
        /\ Answered(e) \in {"resolved", "rejected"}
        /\ Answered(e) = "resolved" => e = "ok"
    BY <1>5 DEF Deliver, Answered
  <2>2. HostTypes'
    BY <1>1, <2>1 DEF HInv, HostTypes
  <2>3. CallsHold'
    BY <1>1, <1>5, <2>1 DEF HInv, HostTypes, CallsHold
  <2>4. OksHold'
    <3>1. result' = result /\ (Answered(e) = "resolved" => result[w] = "ok")
      BY <1>1, <2>1 DEF HInv, OksHold, vars
    <3> QED
      BY <1>1, <2>1, <3>1 DEF HInv, HostTypes, OksHold
  <2>5. OnePending'
    <3>1. \A v \in Writer : call'[v] = "pending" <=> call[v] = "pending" /\ v # w
      BY <2>1 DEF HInv, HostTypes
    <3>2. \A g \in Window : busy'[g] <=> busy[g] /\ g # h
      BY <1>1, <2>1 DEF HInv, HostTypes
    <3>3. \A v \in Writer : WindowOf[v] \in Window
      BY HostConstants
    <3> QED
      BY <1>1, <1>5, <3>1, <3>2, <3>3 DEF HInv, OnePending
  <2> QED
    BY <1>2, <1>3, <2>2, <2>3, <2>4, <2>5 DEF HInv
<1> QED
  BY <1>4, <1>5

LEMMA ReloadHInv ==
  ASSUME HInv, NEW h \in Window, Reload(h)
  PROVE  HInv'
<1> DEFINE mine == {w \in Writer : WindowOf[w] = h /\ thread[w] # "none"}
<1>1. UNCHANGED vars /\ shown' = shown
  BY DEF Reload
<1>2. SInv' /\ Kept /\ reader' = reader
  BY <1>1, StayKept
<1>3. /\ busy' = [busy EXCEPT ![h] = FALSE] /\ last' = [last EXCEPT ![h] = NoWriter]
      /\ call' = [w \in Writer |-> IF w \in mine /\ call[w] = "pending" THEN "lost" ELSE call[w]]
      /\ thread' = [w \in Writer |-> IF w \in mine THEN "over" ELSE thread[w]]
      /\ events' = [w \in Writer |-> IF w \in mine THEN {} ELSE events[w]]
  BY DEF Reload
<1>4. HostTypes'
  BY <1>1, <1>3 DEF HInv, HostTypes
<1>5. CallsHold'
  BY <1>3 DEF HInv, HostTypes, CallsHold
<1>6. OksHold'
  <2>1. result' = result
    BY <1>1 DEF vars
  <2> QED
    BY <1>3, <2>1 DEF HInv, HostTypes, OksHold
<1>7. InputsHold'
  <2>1. \A w \in Writer : thread'[w] = "none" <=> thread[w] = "none"
    BY <1>3
  <2> QED
    BY <1>1, <1>2, <2>1, StoreStays, HostConstants DEF HInv, HostTypes, InputsHold
<1>8. OnePending'
  <2>1. \A w \in Writer : call'[w] = "pending" <=> call[w] = "pending" /\ WindowOf[w] # h
    BY <1>3 DEF HInv, CallsHold
  <2>2. \A g \in Window : busy'[g] <=> busy[g] /\ g # h
    BY <1>3 DEF HInv, HostTypes
  <2>3. \A v \in Writer : WindowOf[v] \in Window
    BY HostConstants
  <2> QED
    BY <2>1, <2>2, <2>3 DEF HInv, OnePending
<1> QED
  BY <1>2, <1>4, <1>5, <1>6, <1>7, <1>8 DEF HInv

-------------------------------------------------------------------------------
LEMMA NextHInv == HInv /\ [HostNext]_hostvars => HInv'
<1> SUFFICES ASSUME HInv, [HostNext]_hostvars PROVE HInv'
  OBVIOUS
<1>1. CASE UNCHANGED hostvars
  BY <1>1, StoreMoves DEF hostvars, vars
<1>2. CASE \E w \in Writer : Invoke(WindowOf[w], w) \/ ThreadStep(w) \/ Die(w) \/ DeliverAny(w)
  BY <1>2, InvokeHInv, ReadInputHInv, WriteHInv, PostThrowExitHInv, DieHInv, DeliverHInv
  DEF ThreadStep, DeliverAny
<1>3. CASE \E h \in Window \cap Reader : Pick(h)
  BY <1>3, PickHInv
<1>4. CASE \E h \in Window : Reload(h)
  BY <1>4, ReloadHInv
<1> QED
  BY <1>1, <1>2, <1>3, <1>4 DEF HostNext

\* What a host step does to the store is a step of the store.
LEMMA HostStepIsStoreStep == HInv /\ [HostNext]_hostvars => [Next]_vars
<1> SUFFICES ASSUME HInv, [HostNext]_hostvars PROVE [Next]_vars
  OBVIOUS
<1>1. CASE UNCHANGED hostvars
  BY <1>1 DEF hostvars
<1>2. ASSUME NEW w \in Writer, ReadInput(w) PROVE [Next]_vars
  <2>1. w \in Reader /\ IdOf[shown[w]] \in Id
    BY <1>2, HostConstants, StoreConstants DEF HInv, HostTypes, InputsHold, ReadInput, HasItsInput
  <2> QED
    BY <1>2, <2>1 DEF ReadInput, Next
<1>3. ASSUME NEW w \in Writer,
             Invoke(WindowOf[w], w) \/ Write(w) \/ Post(w) \/ Throw(w) \/ Exit(w) \/ Die(w)
             \/ DeliverAny(w)
      PROVE  [Next]_vars
  BY <1>3 DEF Invoke, Write, Post, Throw, Exit, Die, DeliverAny, Deliver, Next
<1>4. ASSUME NEW h \in Window \cap Reader, Pick(h) PROVE [Next]_vars
  BY <1>4 DEF Pick, Next
<1>5. ASSUME NEW h \in Window, Reload(h) PROVE [Next]_vars
  BY <1>5 DEF Reload
<1> QED
  BY <1>1, <1>2, <1>3, <1>4, <1>5 DEF HostNext, ThreadStep

\* Windows, workers and the store keep the invariant.
THEOREM HInvariance == HostSpec => []HInv
BY InitHInv, NextHInv, PTL DEF HostSpec

\* Types, of the store and of the windows.
THEOREM HostTyping == HostSpec => []HostTypeOK
<1>1. HInv => HostTypeOK
  BY DEF HInv, SInv, HostTypes, HostTypeOK
<1> QED
  BY <1>1, HInvariance, PTL

\* What a window remembers as its last result is stored in full and readable.
THEOREM LastIsStored == HostSpec => []LastResultIsStored
<1>1. HInv => LastResultIsStored
  <2> SUFFICES ASSUME HInv, NEW h \in Window, last[h] # NoWriter
               PROVE  /\ Linked(last[h]) /\ content[last[h]] = "complete"
                      /\ pc[last[h]] = "done" => ~Refuses(IdOf[last[h]])
    BY DEF LastResultIsStored
  <2>1. last[h] \in Writer /\ result[last[h]] = "ok"
    BY DEF HInv, HostTypes, OksHold
  <2>2. Linked(last[h]) /\ content[last[h]] = "complete"
    BY <2>1 DEF HInv, SInv, AnswersHold, LinksHold
  <2>3. pc[last[h]] = "done" => ~temp[last[h]]
    BY <2>1 DEF HInv, SInv, AnswersHold
  <2>4. target[IdOf[last[h]]] = last[h] /\ last[h] # NoWriter
    BY <2>1, <2>2, StoreConstants DEF Linked
  <2> QED
    BY <2>1, <2>2, <2>3, <2>4 DEF Refuses, Links
<1> QED
  BY <1>1, HInvariance, PTL

\* A worker works on the session that was confirmed.
THEOREM ConfirmedIsRead == HostSpec => []ConfirmedIsApplied
<1>1. HInv => ConfirmedIsApplied
  BY HostConstants DEF HInv, SInv, InputsHold, ReadersHold, LinksHold, TypeOK, ConfirmedIsApplied
<1> QED
  BY <1>1, HInvariance, PTL

\* A window is busy exactly while its one call is pending.
THEOREM BusyTellsTheTruth == HostSpec => []BusyIsTrue
<1>1. HInv => BusyIsTrue
  BY HostConstants DEF HInv, OnePending, BusyIsTrue
<1> QED
  BY <1>1, HInvariance, PTL

\* The store under its windows and workers implements the registry: an id is
\* given out once, never changes, and nobody reads half a session.
THEOREM StoreRefinesRegistry == HostSpec => RefinesRegistry
<1>1. HostInit => Registry!Init
  BY InitHInv, InitRegistry DEF HInv, HostInit
<1>2. HInv /\ HInv' /\ [HostNext]_hostvars => [Registry!Next]_(Registry!vars)
  BY HostStepIsStoreStep, NextRegistry DEF HInv
<1> QED
  BY <1>1, <1>2, HInvariance, PTL DEF HostSpec, RefinesRegistry, Registry!Spec

-------------------------------------------------------------------------------
(* Why every call settles: what a pending one waits for is on its way, and  *)
(* the worker that is to answer it comes to an end.                         *)

\* A pending call has a running thread or an event that was not delivered.
PendingIsAnswerable ==
  \A w \in Writer : call[w] = "pending" => thread[w] = "running" \/ events[w] # {}

InputLeft(w) == IF HasItsInput(w) THEN 0 ELSE IF reader[w].step = "read" THEN 1 ELSE 2
WriteLeft(w) ==
  CASE pc[w] = "exists" -> 5 [] pc[w] = "create" -> 4 [] pc[w] = "fill" -> 3
    [] pc[w] = "link" -> 2 [] pc[w] = "unlink" -> 1 [] OTHER -> 0
\* The most steps the thread of w can still take
WorkLeft(w) ==
  CASE thread[w] = "none"    -> 10
    [] thread[w] = "running" -> 2 + InputLeft(w) + WriteLeft(w)
    [] thread[w] = "ending"  -> 1
    [] OTHER                 -> 0

\* A step of a thread leaves it fewer, and no step of anybody gives it more.
WorkRunsOut ==
  \A w \in Writer :
    /\ WorkLeft(w)' <= WorkLeft(w)
    /\ ThreadStep(w) \/ Die(w) => WorkLeft(w)' < WorkLeft(w)

\* A reader between two reads has forgotten which id it read.
Resting == \A r \in Reader : reader[r].step = "lstat" => reader[r].id = SomeId

LEMMA NextAnswerable ==
  HInv /\ PendingIsAnswerable /\ [HostNext]_hostvars => PendingIsAnswerable'
<1> SUFFICES ASSUME HInv, PendingIsAnswerable, [HostNext]_hostvars,
                    NEW v \in Writer, call'[v] = "pending"
             PROVE  thread'[v] = "running" \/ events'[v] # {}
  BY DEF PendingIsAnswerable
<1>0. /\ call \in [Writer -> {"idle", "refused", "pending", "resolved", "rejected", "lost"}]
      /\ thread \in [Writer -> {"none", "running", "ending", "over"}]
      /\ events \in [Writer -> SUBSET {"ok", "failed", "error", "exit"}]
  BY DEF HInv, HostTypes
<1>1. CASE UNCHANGED <<call, thread, events>>
  BY <1>1 DEF PendingIsAnswerable
<1>2. ASSUME NEW w \in Writer, Invoke(WindowOf[w], w)
      PROVE  thread'[v] = "running" \/ events'[v] # {}
  BY <1>0, <1>2 DEF PendingIsAnswerable, Invoke, RefuseBusy, StartWorker, CannotStart
<1>3. ASSUME NEW w \in Writer, ThreadStep(w) \/ Die(w)
      PROVE  thread'[v] = "running" \/ events'[v] # {}
  <2>1. CASE ReadInput(w) \/ Write(w)
    BY <1>1, <2>1 DEF ReadInput, Write, host
  <2>2. CASE Post(w) \/ Throw(w) \/ Exit(w) \/ Die(w)
    <3>1. /\ UNCHANGED call /\ \E e, s : Send(w, e) /\ Turn(w, s)
      BY <2>2 DEF Post, Throw, Exit, Die
    <3> QED
      BY <1>0, <3>1 DEF PendingIsAnswerable, Send, Turn
  <2> QED
    BY <1>3, <2>1, <2>2 DEF ThreadStep
<1>4. ASSUME NEW w \in Writer, DeliverAny(w)
      PROVE  thread'[v] = "running" \/ events'[v] # {}
  <2>1. PICK e \in {"ok", "failed", "error", "exit"} : Deliver(w, e)
    BY <1>4 DEF DeliverAny
  <2>2. v # w
    BY <1>0, <2>1 DEF Deliver, Handled, Answered
  <2> QED
    BY <1>0, <2>1, <2>2 DEF PendingIsAnswerable, Deliver
<1>5. ASSUME NEW h \in Window, Reload(h) PROVE thread'[v] = "running" \/ events'[v] # {}
  BY <1>0, <1>5 DEF PendingIsAnswerable, Reload, HInv, CallsHold
<1>6. ASSUME NEW h \in Window \cap Reader, Pick(h) PROVE UNCHANGED <<call, thread, events>>
  BY <1>6 DEF Pick, host
<1> QED
  BY <1>1, <1>2, <1>3, <1>4, <1>5, <1>6 DEF HostNext, hostvars, host

\* No call is left behind: while it is pending its thread is running or has sent an
\* event that will settle it, whatever order errors, exits and reloads come in.
THEOREM CallsAreAnswerable == HostSpec => []PendingIsAnswerable
<1>1. HostInit => PendingIsAnswerable
  BY DEF HostInit, PendingIsAnswerable
<1> QED
  BY <1>1, InitHInv, NextHInv, NextAnswerable, PTL DEF HostSpec

LEMMA NextResting == SInv /\ Resting /\ [Next]_vars => Resting'
<1> SUFFICES ASSUME SInv, Resting, [Next]_vars PROVE Resting'
  OBVIOUS
<1>1. reader \in [Reader -> [step: {"lstat", "read"}, id: Id, returned: Writer \cup {NoWriter}]]
  BY DEF SInv, TypeOK
<1>2. CASE UNCHANGED reader
  BY <1>2 DEF Resting
<1>3. ASSUME NEW w \in Writer, WriterStep(w) \/ FillFails(w) \/ UnlinkFails(w) \/ Crash(w)
      PROVE  UNCHANGED reader
  BY <1>3 DEF WriterStep, Exists, Create, Fill, Link, Unlink, FillFails, UnlinkFails, Crash
<1>4. ASSUME NEW r \in Reader, ReadFile(r) \/ \E i \in Id : Lstat(r, i)
      PROVE  Resting'
  BY <1>1, <1>4 DEF Resting, ReadFile, Lstat, Returned, Reading
<1> QED
  BY <1>2, <1>3, <1>4 DEF Next, vars

LEMMA WorkTypes ==
  ASSUME NEW w \in Writer
  PROVE  /\ InputLeft(w) \in 0..2 /\ WriteLeft(w) \in 0..5 /\ WorkLeft(w) \in 0..10
         /\ thread[w] = "running" => WorkLeft(w) >= 2
<1>1. InputLeft(w) \in 0..2 /\ WriteLeft(w) \in 0..5
  BY DEF InputLeft, WriteLeft
<1> HIDE DEF InputLeft
<1> QED
  BY <1>1 DEF WorkLeft

\* What others do is no work for w.
LEMMA OthersWork ==
  ASSUME NEW v \in Writer, thread'[v] = thread[v], pc'[v] = pc[v],
         v \in OnStored => reader'[v] = reader[v]
  PROVE  WorkLeft(v)' = WorkLeft(v)
<1>1. HasItsInput(v)' <=> HasItsInput(v)
  BY DEF HasItsInput
<1>2. InputLeft(v)' = InputLeft(v)
  BY <1>1 DEF InputLeft, HasItsInput
<1> QED
  BY <1>2 DEF WorkLeft, WriteLeft

LEMMA ReadInputWork ==
  ASSUME HInv, Resting, NEW w \in Writer, ReadInput(w), hostvars' # hostvars
  PROVE  WorkLeft(w)' < WorkLeft(w)
<1>1. /\ w \in OnStored /\ w \in Reader /\ thread[w] = "running" /\ thread' = thread /\ pc' = pc
      /\ ~HasItsInput(w) /\ reader[w].returned = NoWriter /\ UNCHANGED host
  BY HostConstants DEF ReadInput, HasItsInput, host, ReadFile, Lstat
<1>2. shown[w] \in Writer /\ Linked(shown[w]) /\ shown[w] # NoWriter
  BY <1>1, StoreConstants DEF HInv, HostTypes, InputsHold
<1>3. reader \in [Reader -> [step: {"lstat", "read"}, id: Id, returned: Writer \cup {NoWriter}]]
  BY DEF HInv, SInv, TypeOK
<1>4. InputLeft(w)' < InputLeft(w)
  <2>1. CASE ReadFile(w)
    <3>1. target[reader[w].id] = shown[w] /\ reader[w].step = "read"
      BY <1>1, <1>2, <2>1 DEF HInv, InputsHold, ReadFile, Linked
    <3>2. reader'[w].returned = shown[w]
      BY <1>1, <1>3, <2>1, <3>1 DEF ReadFile, Returned
    <3>3. InputLeft(w)' = 0
      BY <1>2, <3>2 DEF InputLeft, HasItsInput
    <3>4. InputLeft(w) = 1
      BY <1>1, <3>1 DEF InputLeft
    <3> QED
      BY <3>3, <3>4
  <2>2. CASE Lstat(w, IdOf[shown[w]])
    <3>1. reader[w].step = "lstat" /\ InputLeft(w) = 2
      BY <1>1, <2>2 DEF Lstat, InputLeft
    <3>2. CASE Refuses(IdOf[shown[w]])
      <4>1. reader' = [reader EXCEPT ![w] = Returned(NoWriter)]
        BY <2>2, <3>2 DEF Lstat
      <4>2. reader[w] = Returned(NoWriter)
        BY <1>1, <1>3, <3>1 DEF Resting, Returned
      <4>3. reader' = reader
        BY <1>3, <4>1, <4>2
      <4> QED
        BY <1>1, <2>2, <4>3 DEF hostvars, vars, host, Lstat
    <3>3. CASE ~Refuses(IdOf[shown[w]])
      <4>1. reader'[w] = Reading(IdOf[shown[w]])
        BY <1>1, <1>3, <2>2, <3>3 DEF Lstat
      <4>2. InputLeft(w)' = 1
        BY <1>1, <4>1 DEF Reading, InputLeft, HasItsInput
      <4> QED
        BY <3>1, <4>2
    <3> QED
      BY <3>2, <3>3
  <2> QED
    BY <2>1, <2>2 DEF ReadInput
<1>5. WriteLeft(w)' = WriteLeft(w) /\ WriteLeft(w) \in 0..5
  BY <1>1, WorkTypes DEF WriteLeft
<1>6. InputLeft(w) \in 0..2 /\ InputLeft(w)' \in 0..2
  BY WorkTypes DEF InputLeft
<1> HIDE DEF InputLeft, WriteLeft
<1> QED
  BY <1>1, <1>4, <1>5, <1>6 DEF WorkLeft

LEMMA WriteWork ==
  ASSUME HInv, NEW w \in Writer, Write(w)
  PROVE  WorkLeft(w)' < WorkLeft(w)
<1>1. thread[w] = "running" /\ thread' = thread /\ reader' = reader /\ HasItsInput(w)
  BY DEF Write, host, WriterStep, Exists, Create, Fill, Link, Unlink, FillFails, UnlinkFails
<1>2. pc \in [Writer -> {"exists", "create", "fill", "link", "unlink", "done", "aliased"}]
  BY DEF HInv, SInv, TypeOK
<1>3. WriteLeft(w)' < WriteLeft(w)
  <2>1. \/ pc[w] = "exists" /\ pc'[w] \in {"create", "done"}
        \/ pc[w] = "create" /\ pc'[w] = "fill"
        \/ pc[w] = "fill" /\ pc'[w] \in {"link", "unlink"}
        \/ pc[w] = "link" /\ pc'[w] = "unlink"
        \/ pc[w] = "unlink" /\ pc'[w] \in {"done", "aliased"}
    BY <1>2 DEF Write, WriterStep, Exists, Create, Fill, Link, Unlink, FillFails, UnlinkFails,
                AfterFailedWrite, Goto
  <2> QED
    BY <2>1 DEF WriteLeft
<1>4. InputLeft(w) = 0 /\ InputLeft(w)' = 0
  BY <1>1 DEF InputLeft, HasItsInput
<1>5. WriteLeft(w) \in 0..5 /\ WriteLeft(w)' \in 0..5
  BY DEF WriteLeft
<1> HIDE DEF InputLeft, WriteLeft
<1> QED
  BY <1>1, <1>3, <1>4, <1>5 DEF WorkLeft

\* The thread of w moves on, and nothing else of it is touched.
LEMMA TurnWork ==
  ASSUME HInv, NEW w \in Writer,
         \/ thread[w] = "none" /\ thread'[w] = "running" /\ UNCHANGED <<pc, reader>>
         \/ thread[w] = "running" /\ thread'[w] \in {"ending", "over"}
         \/ thread[w] = "ending" /\ thread'[w] = "over"
  PROVE  WorkLeft(w)' < WorkLeft(w)
<1>1. CASE thread[w] = "none" /\ thread'[w] = "running" /\ UNCHANGED <<pc, reader>>
  <2>1. InputLeft(w)' \in 0..2 /\ WriteLeft(w)' \in 0..5
    BY DEF InputLeft, WriteLeft
  <2> HIDE DEF InputLeft, WriteLeft
  <2> QED
    BY <1>1, <2>1 DEF WorkLeft
<1>2. CASE thread[w] = "running" /\ thread'[w] \in {"ending", "over"}
  BY <1>2, WorkTypes DEF WorkLeft
<1>3. CASE thread[w] = "ending" /\ thread'[w] = "over"
  BY <1>3 DEF WorkLeft
<1> QED
  BY <1>1, <1>2, <1>3

LEMMA ThreadWork ==
  ASSUME HInv, Resting, hostvars' # hostvars, NEW w \in Writer, ThreadStep(w) \/ Die(w)
  PROVE  WorkLeft(w)' < WorkLeft(w)
<1>1. thread \in [Writer -> {"none", "running", "ending", "over"}]
  BY DEF HInv, HostTypes
<1>2. CASE Post(w) \/ Throw(w) \/ Exit(w) \/ Die(w)
  <2>1. \/ thread[w] = "running" /\ thread'[w] \in {"ending", "over"}
        \/ thread[w] = "ending" /\ thread'[w] = "over"
    BY <1>1, <1>2 DEF Post, Throw, Exit, Die, Turn
  <2> QED
    BY <2>1, TurnWork
<1> QED
  BY <1>2, ReadInputWork, WriteWork DEF ThreadStep

LEMMA WorkNeverGrows ==
  ASSUME HInv, Resting, hostvars' # hostvars, HostNext, NEW v \in Writer
  PROVE  WorkLeft(v)' <= WorkLeft(v)
<1>1. WorkLeft(v) \in 0..10 /\ WorkLeft(v)' \in 0..10
  <2>1. InputLeft(v)' \in 0..2 /\ WriteLeft(v)' \in 0..5
    BY DEF InputLeft, WriteLeft
  <2> HIDE DEF InputLeft, WriteLeft
  <2> QED
    BY <2>1, WorkTypes DEF WorkLeft
<1>2. /\ thread \in [Writer -> {"none", "running", "ending", "over"}]
      /\ pc \in [Writer -> {"exists", "create", "fill", "link", "unlink", "done", "aliased"}]
      /\ reader \in [Reader -> [step: {"lstat", "read"}, id: Id, returned: Writer \cup {NoWriter}]]
      /\ (v \in OnStored => v \in Reader) /\ v \notin Window
  BY HostConstants DEF HInv, HostTypes, SInv, TypeOK
<1>3. CASE thread'[v] = thread[v] /\ pc'[v] = pc[v] /\ (v \in OnStored => reader'[v] = reader[v])
  BY <1>1, <1>3, OthersWork
<1>4. CASE WorkLeft(v)' < WorkLeft(v)
  BY <1>1, <1>4
<1>5. ASSUME NEW w \in Writer, Invoke(WindowOf[w], w) PROVE WorkLeft(v)' <= WorkLeft(v)
  <2>1. UNCHANGED <<pc, reader>>
        /\ (thread'[v] = thread[v] \/ (thread[v] = "none" /\ thread'[v] = "running"))
    BY <1>2, <1>5 DEF Invoke, RefuseBusy, StartWorker, CannotStart, vars, HInv, CallsHold
  <2> QED
    BY <1>3, <1>4, <2>1, TurnWork
<1>6. ASSUME NEW w \in Writer, ThreadStep(w) \/ Die(w) PROVE WorkLeft(v)' <= WorkLeft(v)
  <2>1. CASE v = w
    BY <1>4, <1>6, <2>1, ThreadWork
  <2>2. CASE v # w
    <3>1. CASE ReadInput(w)
      BY <1>2, <1>3, <2>2, <3>1 DEF ReadInput, ReadFile, Lstat, host
    <3>2. CASE Write(w)
      BY <1>2, <1>3, <2>2, <3>2 DEF Write, WriterStep, Exists, Create, Fill, Link, Unlink,
                                    FillFails, UnlinkFails, Goto, host
    <3>3. CASE Post(w) \/ Throw(w) \/ Exit(w) \/ Die(w)
      <4>1. thread'[v] = thread[v] /\ pc'[v] = pc[v] /\ reader' = reader
        BY <1>2, <2>2, <3>3 DEF Post, Throw, Exit, Die, Turn, Crash, Goto, vars
      <4> QED
        BY <1>3, <4>1
    <3> QED
      BY <1>6, <3>1, <3>2, <3>3 DEF ThreadStep
  <2> QED
    BY <2>1, <2>2
<1>7. ASSUME NEW w \in Writer, DeliverAny(w) PROVE WorkLeft(v)' <= WorkLeft(v)
  <2>1. UNCHANGED <<thread, pc, reader>>
    BY <1>7 DEF DeliverAny, Deliver, vars
  <2> QED
    BY <1>3, <2>1
<1>8. ASSUME NEW h \in Window \cap Reader, Pick(h) PROVE WorkLeft(v)' <= WorkLeft(v)
  <2>1. UNCHANGED <<thread, pc>> /\ (v \in OnStored => reader'[v] = reader[v])
    BY <1>2, <1>8 DEF Pick, ReadFile, Lstat, host
  <2> QED
    BY <1>3, <2>1
<1>9. ASSUME NEW h \in Window, Reload(h) PROVE WorkLeft(v)' <= WorkLeft(v)
  <2>1. UNCHANGED <<pc, reader>>
        /\ (thread'[v] = thread[v] \/ (thread[v] # "none" /\ thread'[v] = "over"))
    BY <1>9 DEF Reload, vars
  <2>2. CASE thread[v] \in {"running", "ending"} /\ thread'[v] = "over"
    BY <1>4, <2>2, TurnWork
  <2> QED
    BY <1>2, <1>3, <2>1, <2>2
<1> QED
  BY <1>5, <1>6, <1>7, <1>8, <1>9 DEF HostNext

\* No worker goes on for ever: whatever it does, dying included, leaves it fewer steps,
\* and nothing that anybody else does gives it more.  With CallsAreAnswerable this is
\* what EveryCallSettles needs besides fairness.
THEOREM WorkersFinish == HostSpec => [][WorkRunsOut]_hostvars
<1>1. HostInit => Resting
  BY DEF HostInit, Init, Resting, Returned
<1>2. HInv /\ Resting /\ [HostNext]_hostvars => Resting'
  BY HostStepIsStoreStep, NextResting DEF HInv
<1>3. HInv /\ Resting /\ [HostNext]_hostvars => [WorkRunsOut]_hostvars
  BY ThreadWork, WorkNeverGrows DEF WorkRunsOut
<1> QED
  BY <1>1, <1>2, <1>3, InitHInv, NextHInv, PTL DEF HostSpec
===============================================================================
