---------------------------- MODULE LoggerProofs ----------------------------
(***************************************************************************)
(* Theorems about module Logger, for any number of application threads,    *)
(* any number of calls and rotations, any records, and targets that log or *)
(* do not.                                                                 *)
(***************************************************************************)
EXTENDS Logger, SequenceTheorems, TLAPS

USE ThreadsAssumption, TargetsLogAssumption, BoundsAssumption

-----------------------------------------------------------------------------
(* Type correctness.                                                       *)

(* A thread in the body of Log_entry has taken a record in: `accepted' has *)
(* a last record.                                                          *)
HasRecord == \A t \in Threads : pc[t] = "log_body" => accepted # <<>>

TypeInv == TypeOK /\ HasRecord

LEMMA TypeInit == Init => TypeInv
<1> SUFFICES ASSUME Init PROVE TypeInv
  OBVIOUS
<1> USE DEF Init, Threads
<1>1. /\ \A t \in Threads : pc[t] \in {"idle", "none"}
      /\ \A c \in Clients : pc[c] = "idle"
      /\ pc[Maint] = "none"
  OBVIOUS
<1>2. pc \in [Threads -> ClientPcs \cup MaintPcs]
  BY DEF ClientPcs, MaintPcs
<1>3. <<>> \in Seq(Record)
  OBVIOUS
<1> QED BY <1>1, <1>2, <1>3 DEF TypeInv, TypeOK, HasRecord, ClientPcs, MaintPcs, LoggingPcs

(* Taking a record in leaves a non-empty history.                          *)
LEMMA TakeInAppends ==
  ASSUME accepted \in Seq(Record), NEW t, NEW next, TakeIn(t, next)
  PROVE  /\ accepted' \in Seq(Record)
         /\ accepted' # <<>>
         /\ ret' = [ret EXCEPT ![t] = next]
         /\ pc' = [pc EXCEPT ![t] = "log_body"]
<1>1. PICK r \in Record : accepted' = Append(accepted, r)
  BY DEF TakeIn
<1>2. accepted' \in Seq(Record) /\ Len(accepted') = Len(accepted) + 1
  BY <1>1
<1>3. accepted' # <<>>
  BY <1>2
<1> QED BY <1>2, <1>3 DEF TakeIn, Goto

LEMMA TypeTakeIn ==
  ASSUME TypeInv, NEW t \in Threads, NEW next \in {"unlock", "start_threads"},
         t = Maint => next = "unlock", TakeIn(t, next),
         mutex' \in Threads \cup {None},
         UNCHANGED <<async, queue, sem, threadVars, callVars, written>>
  PROVE  TypeInv'
<1>1. /\ accepted' \in Seq(Record)
      /\ accepted' # <<>>
      /\ ret' = [ret EXCEPT ![t] = next]
      /\ pc' = [pc EXCEPT ![t] = "log_body"]
  BY TakeInAppends DEF TypeInv, TypeOK
<1> QED
  BY <1>1 DEF TypeInv, HasRecord, TypeOK, Threads, ClientPcs, MaintPcs, LockedPcs,
              threadVars, callVars

LEMMA TypeThreadStep ==
  ASSUME TypeInv, NEW t \in Threads, ThreadStep(t)
  PROVE  TypeInv'
<1> USE DEF TypeInv, HasRecord, TypeOK, Threads, ClientPcs, MaintPcs, LockedPcs, LoggingPcs,
            Goto, threadVars, callVars
<1>1. CASE Lock(t)
  <2> DEFINE op == IF t = Maint THEN "log" ELSE call[t]
  <2>1. CASE op = "log" /\ TakeIn(t, "unlock")
    BY <1>1, <2>1, TypeTakeIn DEF Lock
  <2>2. CASE op = "start" /\ Goto(t, "start_init") /\ UNCHANGED <<ret, accepted>>
    BY <1>1, <2>2 DEF Lock
  <2>3. CASE op \in {"stop", "reconfigure"} /\ Goto(t, "stop_lt") /\ UNCHANGED <<ret, accepted>>
    BY <1>1, <2>3 DEF Lock
  <2> QED BY <1>1, <2>1, <2>2, <2>3 DEF Lock
<1>2. CASE Log_queue(t)
  <2>1. accepted[Len(accepted)] \in Record
    BY <1>2 DEF Log_queue
  <2> QED BY <1>2, <2>1 DEF Log_queue
<1>3. CASE Log_write(t)
  <2>1. accepted[Len(accepted)] \in Record
    BY <1>3 DEF Log_write
  <2> QED BY <1>3, <2>1 DEF Log_write
<1>4. CASE Unlock(t)
  BY <1>4 DEF Unlock
<1>5. CASE t \in Clients /\ StartStep(t)
  <2>1. CASE Start_init(t)
    <3>1. CASE TargetsLog
      <4>1. TakeIn(t, "start_threads") /\ t # Maint
        BY <1>5, <2>1, <3>1 DEF Start_init
      <4>2. UNCHANGED <<async, mutex, queue, sem, threadVars, callVars, written>>
        BY <2>1 DEF Start_init
      <4> QED BY <4>1, <4>2, TypeTakeIn
    <3>2. CASE ~TargetsLog
      <4>1. pc' = [pc EXCEPT ![t] = "start_threads"] /\ UNCHANGED <<ret, accepted>>
        BY <2>1, <3>2 DEF Start_init
      <4>2. UNCHANGED <<async, mutex, queue, sem, threadVars, callVars, written>>
        BY <2>1 DEF Start_init
      <4> QED BY <1>5, <4>1, <4>2
    <3> QED BY <3>1, <3>2
  <2>2. CASE Start_threads(t)
    BY <1>5, <2>2 DEF Start_threads
  <2> QED BY <1>5, <2>1, <2>2 DEF StartStep
<1>6. CASE t \in Clients /\ StopStep(t)
  <2>1. CASE Stop_logging_thread(t)
    BY <1>6, <2>1 DEF Stop_logging_thread
  <2>2. CASE Join_logging_thread(t)
    BY <1>6, <2>2 DEF Join_logging_thread
  <2>3. CASE Stop_maintenance_thread(t)
    BY <1>6, <2>3 DEF Stop_maintenance_thread
  <2>4. CASE Join_maintenance_thread(t)
    BY <1>6, <2>4 DEF Join_maintenance_thread
  <2>5. CASE Flush(t)
    BY <1>6, <2>5 DEF Flush
  <2>6. CASE Flush_write(t)
    BY <1>6, <2>6 DEF Flush_write
  <2>7. CASE Flush_done(t)
    BY <1>6, <2>7 DEF Flush_done
  <2> QED BY <1>6, <2>1, <2>2, <2>3, <2>4, <2>5, <2>6, <2>7 DEF StopStep
<1>7. CASE t \in Clients /\ ReconfigureStep(t)
  <2>1. CASE Configure(t)
    BY <1>7, <2>1 DEF Configure
  <2>2. CASE Reconfigure_info(t)
    BY <1>7, <2>2, TypeTakeIn DEF Reconfigure_info
  <2> QED BY <1>7, <2>1, <2>2 DEF ReconfigureStep
<1> QED BY <1>1, <1>2, <1>3, <1>4, <1>5, <1>6, <1>7 DEF ThreadStep, LogStep

LEMMA TypeLoggingStep ==
  ASSUME TypeInv, LoggingStep
  PROVE  TypeInv'
<1> USE DEF TypeInv, HasRecord, TypeOK, LoggingPcs, LoggingGoto, callVars
<1>1. CASE Logging_check
  BY <1>1 DEF Logging_check
<1>2. CASE Logging_acquire
  BY <1>2 DEF Logging_acquire
<1>3. CASE Logging_timeout
  BY <1>3 DEF Logging_timeout
<1>4. CASE Logging_empty
  BY <1>4 DEF Logging_empty
<1>5. CASE Logging_swap
  BY <1>5 DEF Logging_swap
<1>6. CASE Logging_lock_failed
  BY <1>6 DEF Logging_lock_failed
<1>7. CASE Logging_write
  BY <1>7 DEF Logging_write
<1>8. CASE Logging_done
  BY <1>8 DEF Logging_done
<1> QED BY <1>1, <1>2, <1>3, <1>4, <1>5, <1>6, <1>7, <1>8 DEF LoggingStep

LEMMA TypeNext == TypeInv /\ [Next]_vars => TypeInv'
<1> SUFFICES ASSUME TypeInv, [Next]_vars PROVE TypeInv'
  OBVIOUS
<1> USE DEF TypeInv, HasRecord, TypeOK
<1>1. ASSUME NEW c \in Clients, Call(c) PROVE TypeInv'
  BY <1>1 DEF Call, Goto, threadVars, Threads, ClientPcs, MaintPcs, LockedPcs
<1>2. ASSUME NEW t \in Threads, ThreadStep(t) PROVE TypeInv'
  BY <1>2, TypeThreadStep
<1>3. CASE LoggingStep
  BY <1>3, TypeLoggingStep
<1>4. CASE MaintenanceStep
  <2>1. PICK label \in {"exit", "maintain", "sleep", "lock", "check"} : MaintGoto(label)
    BY <1>4 DEF MaintenanceStep, Maintenance_check, Maintenance_quiet, Maintenance_rotate, Maintenance_sleep
  <2>2. rotations' \in Nat
    BY <1>4 DEF MaintenanceStep, Maintenance_check, Maintenance_quiet, Maintenance_rotate, Maintenance_sleep
  <2>3. /\ pc' = [pc EXCEPT ![Maint] = label]
        /\ UNCHANGED <<async, mutex, queue, sem, threadVars, call, calls, ret, accepted, written>>
    BY <2>1 DEF MaintGoto, Goto
  <2>4. /\ pc' \in [Threads -> ClientPcs \cup MaintPcs] /\ pc'[Maint] \in MaintPcs
        /\ \A c \in Clients : pc'[c] \in ClientPcs
    BY <2>3 DEF Threads, MaintPcs
  <2>5. HasRecord'
    BY <2>3 DEF Threads
  <2> QED BY <2>2, <2>3, <2>4, <2>5 DEF threadVars
<1>5. CASE UNCHANGED vars
  BY <1>5 DEF vars, threadVars, callVars
<1> QED BY <1>1, <1>2, <1>3, <1>4, <1>5 DEF Next, Terminated

(* The variables of the logger keep their types.                           *)
THEOREM TypeCorrect == Spec => []TypeOK
<1>1. TypeInv => TypeOK
  BY DEF TypeInv
<1> QED BY <1>1, TypeInit, TypeNext, PTL DEF Spec

-----------------------------------------------------------------------------
(* The inductive invariant of the hand-over.                               *)

(* A thread is past the head of a call exactly when it owns the mutex.     *)
MutexOwned == \A t \in Threads : pc[t] \in LockedPcs <=> mutex = t

(* The positions of a thread go with the call it is in.                    *)
CallPositions ==
    \A c \in Clients :
        /\ pc[c] \in {"start_init", "start_threads", "info"} =>
               call[c] \in {"start", "reconfigure"}
        /\ pc[c] = "info" => call[c] = "reconfigure"
        /\ pc[c] \in {"stop_lt", "join_lt", "stop_mt", "join_mt", "flush", "flush_write"} =>
               call[c] \in {"stop", "reconfigure"}
        /\ pc[c] = "configure" => call[c] = "reconfigure"
        /\ pc[c] = "log_body" => call[c] # "stop"
        /\ pc[c] = "log_body" /\ ret[c] = "start_threads" => call[c] \in {"start", "reconfigure"}

(* Stop has run and nothing has been started since.                        *)
Quiet(c) ==
    \/ pc[c] = "configure"
    \/ pc[c] = "start_init" /\ call[c] = "reconfigure"
    \/ pc[c] = "unlock" /\ call[c] = "stop"

(* How far Stop is tells which thread is gone and which buffer is empty.   *)
LoggingGone(c) == pc[c] \in {"stop_mt", "join_mt", "flush", "flush_write"} \/ Quiet(c)
MaintGone(c)   == pc[c] \in {"flush", "flush_write"} \/ Quiet(c)
QueueEmpty(c)  == pc[c] = "flush_write" \/ Quiet(c)

Stages ==
    /\ lpc # "write" => batch = <<>>
    /\ flush # <<>> => \E c \in Clients : pc[c] = "flush_write"
    /\ ~async => queue = <<>> /\ lpc = "none"
    /\ \A c \in Clients :
          /\ LoggingGone(c) => lpc = "none"
          /\ MaintGone(c) => pc[Maint] = "none"
          /\ QueueEmpty(c) => queue = <<>>

Inv == TypeInv /\ MutexOwned /\ CallPositions /\ Stages /\ FifoHandOver

(* What the steps of a thread need of TypeOK.                              *)
Positions ==
    /\ pc \in [Threads -> ClientPcs \cup MaintPcs]
    /\ mutex \in Threads \cup {None}
    /\ \A c \in Clients : pc[c] \in ClientPcs
    /\ pc[Maint] \in MaintPcs
    /\ call \in [Clients -> {"none", "log", "start", "stop", "reconfigure"}]
    /\ ret \in [Threads -> {"unlock", "start_threads"}]

LEMMA TypePositions == TypeInv => Positions
BY DEF TypeInv, TypeOK, Positions

LEMMA MutexNext ==
  ASSUME Positions, MutexOwned, [Next]_vars
  PROVE  MutexOwned'
<1> USE DEF Positions, MutexOwned, Threads, LockedPcs, ClientPcs, MaintPcs, Goto, TakeIn
<1>1. ASSUME NEW c \in Clients, Call(c) PROVE MutexOwned'
  BY <1>1 DEF Call
<1>2. ASSUME NEW t \in Threads, LogStep(t) PROVE MutexOwned'
  <2>1. CASE Lock(t)
    BY <1>2, <2>1 DEF Lock
  <2>2. CASE Log_queue(t) \/ Log_write(t)
    BY <1>2, <2>2 DEF Log_queue, Log_write
  <2>3. CASE Unlock(t)
    BY <1>2, <2>3 DEF Unlock
  <2> QED BY <1>2, <2>1, <2>2, <2>3 DEF LogStep
<1>3. ASSUME NEW c \in Clients, StartStep(c) PROVE MutexOwned'
  <2>1. CASE Start_init(c)
    BY <1>3, <2>1 DEF Start_init
  <2>2. CASE Start_threads(c)
    BY <1>3, <2>2 DEF Start_threads
  <2> QED BY <1>3, <2>1, <2>2 DEF StartStep
<1>4. ASSUME NEW c \in Clients, StopStep(c) PROVE MutexOwned'
  <2>1. CASE Stop_logging_thread(c)
    BY <1>4, <2>1 DEF Stop_logging_thread
  <2>2. CASE Join_logging_thread(c)
    BY <1>4, <2>2 DEF Join_logging_thread
  <2>3. CASE Stop_maintenance_thread(c)
    BY <1>4, <2>3 DEF Stop_maintenance_thread
  <2>4. CASE Join_maintenance_thread(c)
    BY <1>4, <2>4 DEF Join_maintenance_thread
  <2>5. CASE Flush(c)
    BY <1>4, <2>5 DEF Flush
  <2>6. CASE Flush_write(c)
    BY <1>4, <2>6 DEF Flush_write
  <2>7. CASE Flush_done(c)
    BY <1>4, <2>7 DEF Flush_done
  <2> QED BY <1>4, <2>1, <2>2, <2>3, <2>4, <2>5, <2>6, <2>7 DEF StopStep
<1>5. ASSUME NEW c \in Clients, ReconfigureStep(c) PROVE MutexOwned'
  BY <1>5 DEF ReconfigureStep, Configure, Reconfigure_info
<1>6. CASE LoggingStep
  BY <1>6 DEF LoggingStep, Logging_check, Logging_acquire, Logging_timeout, Logging_empty,
              Logging_swap, Logging_lock_failed, Logging_write, Logging_done, LoggingGoto
<1>7. CASE MaintenanceStep
  BY <1>7 DEF MaintenanceStep, Maintenance_check, Maintenance_quiet, Maintenance_rotate,
              Maintenance_sleep, MaintGoto
<1>8. CASE UNCHANGED vars
  BY <1>8 DEF vars
<1> QED
  BY <1>1, <1>2, <1>3, <1>4, <1>5, <1>6, <1>7, <1>8 DEF Next, ThreadStep, Terminated

LEMMA CallPositionsNext ==
  ASSUME Positions, MutexOwned, CallPositions, [Next]_vars
  PROVE  CallPositions'
<1> USE DEF Positions, CallPositions, Threads, LockedPcs, ClientPcs, MaintPcs, Goto, callVars
<1>1. ASSUME NEW c \in Clients, Call(c) PROVE CallPositions'
  BY <1>1 DEF Call
<1>2. ASSUME NEW t \in Threads, LogStep(t) PROVE CallPositions'
  <2>1. CASE Lock(t)
    BY <1>2, <2>1 DEF Lock, TakeIn
  <2>2. CASE Log_queue(t) \/ Log_write(t)
    BY <1>2, <2>2 DEF Log_queue, Log_write
  <2>3. CASE Unlock(t)
    BY <1>2, <2>3 DEF Unlock
  <2> QED BY <1>2, <2>1, <2>2, <2>3 DEF LogStep
<1>3. ASSUME NEW c \in Clients, StartStep(c) PROVE CallPositions'
  <2>1. CASE Start_init(c)
    BY <1>3, <2>1 DEF Start_init, TakeIn
  <2>2. CASE Start_threads(c)
    BY <1>3, <2>2 DEF Start_threads
  <2> QED BY <1>3, <2>1, <2>2 DEF StartStep
<1>4. ASSUME NEW c \in Clients, StopStep(c) PROVE CallPositions'
  <2>1. CASE Stop_logging_thread(c)
    BY <1>4, <2>1 DEF Stop_logging_thread
  <2>2. CASE Join_logging_thread(c)
    BY <1>4, <2>2 DEF Join_logging_thread
  <2>3. CASE Stop_maintenance_thread(c)
    BY <1>4, <2>3 DEF Stop_maintenance_thread
  <2>4. CASE Join_maintenance_thread(c)
    BY <1>4, <2>4 DEF Join_maintenance_thread
  <2>5. CASE Flush(c)
    BY <1>4, <2>5 DEF Flush
  <2>6. CASE Flush_write(c)
    BY <1>4, <2>6 DEF Flush_write
  <2>7. CASE Flush_done(c)
    BY <1>4, <2>7 DEF Flush_done
  <2> QED BY <1>4, <2>1, <2>2, <2>3, <2>4, <2>5, <2>6, <2>7 DEF StopStep
<1>5. ASSUME NEW c \in Clients, ReconfigureStep(c) PROVE CallPositions'
  BY <1>5 DEF ReconfigureStep, Configure, Reconfigure_info, TakeIn
<1>6. CASE LoggingStep
  BY <1>6 DEF LoggingStep, Logging_check, Logging_acquire, Logging_timeout, Logging_empty,
              Logging_swap, Logging_lock_failed, Logging_write, Logging_done, LoggingGoto
<1>7. CASE MaintenanceStep
  BY <1>7 DEF MaintenanceStep, Maintenance_check, Maintenance_quiet, Maintenance_rotate,
              Maintenance_sleep, MaintGoto
<1>8. CASE UNCHANGED vars
  BY <1>8 DEF vars
<1> QED
  BY <1>1, <1>2, <1>3, <1>4, <1>5, <1>6, <1>7, <1>8 DEF Next, ThreadStep, Terminated

LEMMA StagesNext ==
  ASSUME Positions, MutexOwned, CallPositions, Stages, [Next]_vars
  PROVE  Stages'
<1> USE DEF Positions, MutexOwned, CallPositions, Stages, LoggingGone, MaintGone, QueueEmpty,
            Quiet, Threads, LockedPcs, ClientPcs, MaintPcs, Goto, threadVars, callVars
<1>1. ASSUME NEW c \in Clients, Call(c) PROVE Stages'
  BY <1>1 DEF Call
<1>2. ASSUME NEW t \in Threads, LogStep(t) PROVE Stages'
  <2>1. CASE Lock(t)
    BY <1>2, <2>1 DEF Lock, TakeIn
  <2>2. CASE Log_queue(t)
    BY <1>2, <2>2 DEF Log_queue
  <2>3. CASE Log_write(t)
    BY <1>2, <2>3 DEF Log_write
  <2>4. CASE Unlock(t)
    BY <1>2, <2>4 DEF Unlock
  <2> QED BY <1>2, <2>1, <2>2, <2>3, <2>4 DEF LogStep
<1>3. ASSUME NEW c \in Clients, StartStep(c) PROVE Stages'
  <2>1. CASE Start_init(c)
    BY <1>3, <2>1 DEF Start_init, TakeIn
  <2>2. CASE Start_threads(c)
    BY <1>3, <2>2 DEF Start_threads
  <2> QED BY <1>3, <2>1, <2>2 DEF StartStep
<1>4. ASSUME NEW c \in Clients, StopStep(c) PROVE Stages'
  <2>1. CASE Stop_logging_thread(c)
    BY <1>4, <2>1 DEF Stop_logging_thread
  <2>2. CASE Join_logging_thread(c)
    BY <1>4, <2>2 DEF Join_logging_thread
  <2>3. CASE Stop_maintenance_thread(c)
    BY <1>4, <2>3 DEF Stop_maintenance_thread
  <2>4. CASE Join_maintenance_thread(c)
    BY <1>4, <2>4 DEF Join_maintenance_thread
  <2>5. CASE Flush(c)
    BY <1>4, <2>5 DEF Flush
  <2>6. CASE Flush_write(c)
    BY <1>4, <2>6 DEF Flush_write
  <2>7. CASE Flush_done(c)
    BY <1>4, <2>7 DEF Flush_done
  <2> QED BY <1>4, <2>1, <2>2, <2>3, <2>4, <2>5, <2>6, <2>7 DEF StopStep
<1>5. ASSUME NEW c \in Clients, ReconfigureStep(c) PROVE Stages'
  <2>1. CASE Configure(c)
    BY <1>5, <2>1 DEF Configure
  <2>2. CASE Reconfigure_info(c)
    BY <1>5, <2>2 DEF Reconfigure_info, TakeIn
  <2> QED BY <1>5, <2>1, <2>2 DEF ReconfigureStep
<1>6. CASE LoggingStep
  <2>1. CASE Logging_check
    BY <1>6, <2>1 DEF Logging_check, LoggingGoto
  <2>2. CASE Logging_acquire
    BY <1>6, <2>2 DEF Logging_acquire, LoggingGoto
  <2>3. CASE Logging_timeout
    BY <1>6, <2>3 DEF Logging_timeout, LoggingGoto
  <2>4. CASE Logging_empty
    BY <1>6, <2>4 DEF Logging_empty, LoggingGoto
  <2>5. CASE Logging_swap
    BY <1>6, <2>5 DEF Logging_swap, LoggingGoto
  <2>6. CASE Logging_lock_failed
    BY <1>6, <2>6 DEF Logging_lock_failed, LoggingGoto
  <2>7. CASE Logging_write
    BY <1>6, <2>7 DEF Logging_write, LoggingGoto
  <2>8. CASE Logging_done
    BY <1>6, <2>8 DEF Logging_done, LoggingGoto
  <2> QED BY <1>6, <2>1, <2>2, <2>3, <2>4, <2>5, <2>6, <2>7, <2>8 DEF LoggingStep
<1>7. CASE MaintenanceStep
  <2>1. CASE Maintenance_check
    BY <1>7, <2>1 DEF Maintenance_check, MaintGoto
  <2>2. CASE Maintenance_quiet
    BY <1>7, <2>2 DEF Maintenance_quiet, MaintGoto
  <2>3. CASE Maintenance_rotate
    BY <1>7, <2>3 DEF Maintenance_rotate, MaintGoto
  <2>4. CASE Maintenance_sleep
    BY <1>7, <2>4 DEF Maintenance_sleep, MaintGoto
  <2> QED BY <1>7, <2>1, <2>2, <2>3, <2>4 DEF MaintenanceStep
<1>8. CASE UNCHANGED vars
  BY <1>8 DEF vars
<1> QED
  BY <1>1, <1>2, <1>3, <1>4, <1>5, <1>6, <1>7, <1>8 DEF Next, ThreadStep, Terminated

-----------------------------------------------------------------------------
(* Sequences: a record moves from one buffer to the next.                  *)

LEMMA HeadAndTail ==
  ASSUME NEW S, NEW s \in Seq(S), s # <<>>
  PROVE  /\ Head(s) \in S
         /\ Tail(s) \in Seq(S)
         /\ s = <<Head(s)>> \o Tail(s)
<1>1. Head(s) \in S /\ Tail(s) \in Seq(S)
  BY HeadTailProperties
<1>2. s = <<Head(s)>> \o Tail(s)
  OBVIOUS
<1> QED BY <1>1, <1>2

(* The head of a buffer is written.                                        *)
LEMMA WriteHead ==
  ASSUME NEW S, NEW w \in Seq(S), NEW s \in Seq(S), s # <<>>
  PROVE  Append(w, Head(s)) \o Tail(s) = w \o s
<1>1. Append(w, Head(s)) = w \o <<Head(s)>>
  BY HeadAndTail, AppendIsConcat
<1>2. (w \o <<Head(s)>>) \o Tail(s) = w \o (<<Head(s)>> \o Tail(s))
  <2>1. <<Head(s)>> \in Seq(S) /\ Tail(s) \in Seq(S)
    BY HeadAndTail
  <2> QED BY <2>1, ConcatAssociative
<1> QED BY <1>1, <1>2, HeadAndTail

(* The record in hand is put at the end of a buffer.                       *)
LEMMA QueueLast ==
  ASSUME NEW S, NEW w \in Seq(S), NEW q \in Seq(S), NEW r \in S
  PROVE  w \o Append(q, r) = (w \o q) \o <<r>>
<1>1. <<r>> \in Seq(S)
  OBVIOUS
<1> QED BY <1>1, AppendIsConcat, ConcatAssociative

LEMMA EmptyConcat ==
  ASSUME NEW S, NEW s \in Seq(S)
  PROVE  s \o <<>> = s
BY ConcatEmptySeq

-----------------------------------------------------------------------------
(* The hand-over.                                                          *)

LEMMA FifoTakeIn ==
  ASSUME TypeInv, FifoHandOver, InHand = <<>>,
         NEW t \in Threads, NEW next, TakeIn(t, next),
         mutex' = t, UNCHANGED <<written, flush, batch, queue>>
  PROVE  FifoHandOver'
<1> DEFINE buffers == written \o flush \o batch \o queue
<1>1. PICK r \in Record : accepted' = Append(accepted, r)
  BY DEF TakeIn
<1>2. buffers \in Seq(Record)
  BY DEF TypeInv, TypeOK
<1>3. accepted = buffers
  BY <1>2, EmptyConcat DEF FifoHandOver
<1>4. accepted' = buffers \o <<r>>
  BY <1>1, <1>2, <1>3, AppendIsConcat
<1>5. accepted'[Len(accepted')] = r
  BY <1>1, <1>2, <1>3
<1>6. InHand' = <<r>>
  BY <1>5, ThreadsAssumption DEF InHand, TakeIn, Goto, TypeInv, TypeOK, Threads
<1> QED BY <1>4, <1>6 DEF FifoHandOver

LEMMA FifoSilent ==
  ASSUME FifoHandOver, InHand' = InHand, UNCHANGED <<accepted, written, flush, batch, queue>>
  PROVE  FifoHandOver'
BY DEF FifoHandOver

LEMMA FifoLogStep ==
  ASSUME TypeInv, MutexOwned, Stages, FifoHandOver, NEW t \in Threads, LogStep(t)
  PROVE  FifoHandOver'
<1> USE DEF TypeInv, TypeOK, Threads
<1>1. CASE Lock(t)
  <2>1. InHand = <<>>
    BY <1>1 DEF Lock, InHand
  <2>2. CASE TakeIn(t, "unlock")
    <3>1. mutex' = t /\ UNCHANGED <<written, flush, batch, queue>>
      BY <1>1 DEF Lock, threadVars
    <3> QED BY <2>1, <2>2, <3>1, FifoTakeIn
  <2>3. CASE ~TakeIn(t, "unlock")
    <3>1. UNCHANGED <<accepted, written, flush, batch, queue>>
      BY <1>1, <2>3 DEF Lock, threadVars
    <3>2. InHand' = <<>>
      BY <1>1, <2>3 DEF Lock, InHand, Goto
    <3> QED BY <2>1, <3>1, <3>2, FifoSilent
  <2> QED BY <2>2, <2>3
<1>2. CASE Log_queue(t)
  <2> DEFINE r == accepted[Len(accepted)]
             w == written \o flush \o batch
  <2>1. mutex = t /\ InHand = <<r>> /\ r \in Record
    BY <1>2 DEF Log_queue, InHand, MutexOwned, LockedPcs, HasRecord
  <2>2. queue' = Append(queue, r) /\ UNCHANGED <<accepted, written, flush, batch, mutex>>
    BY <1>2 DEF Log_queue, threadVars
  <2>3. InHand' = <<>>
    BY <1>2, <2>1, <2>2 DEF Log_queue, InHand, Goto
  <2>4. w \in Seq(Record) /\ Append(queue, r) \in Seq(Record)
    BY <2>1
  <2>5. w \o Append(queue, r) = (w \o queue) \o <<r>>
    <3>1. w \in Seq(Record) /\ queue \in Seq(Record) /\ r \in Record
      BY <2>1, <2>4
    <3> HIDE DEF w, r
    <3> QED BY <3>1, QueueLast
  <2>6. (w \o Append(queue, r)) \o <<>> = w \o Append(queue, r)
    <3>1. w \o Append(queue, r) \in Seq(Record)
      BY <2>4
    <3> QED BY <3>1, EmptyConcat
  <2>7. accepted = (w \o queue) \o <<r>>
    BY <2>1 DEF FifoHandOver
  <2> QED BY <2>2, <2>3, <2>5, <2>6, <2>7 DEF FifoHandOver
<1>3. CASE Log_write(t)
  <2> DEFINE r == accepted[Len(accepted)]
  <2>1. mutex = t /\ InHand = <<r>> /\ r \in Record
    BY <1>3 DEF Log_write, InHand, MutexOwned, LockedPcs, HasRecord
  <2>2. flush = <<>> /\ batch = <<>> /\ queue = <<>>
    BY <1>3, <2>1 DEF Log_write, Stages, MutexOwned, LockedPcs
  <2>3. written' = Append(written, r) /\ UNCHANGED <<accepted, queue, flush, batch, mutex>>
    BY <1>3 DEF Log_write, threadVars
  <2>4. InHand' = <<>>
    BY <1>3, <2>1, <2>3 DEF Log_write, InHand, Goto
  <2>5. accepted = Append(written, r)
    <3>1. written \o flush \o batch \o queue = written
      BY <2>2, EmptyConcat
    <3>2. accepted = written \o <<r>>
      BY <2>1, <3>1 DEF FifoHandOver
    <3> QED BY <2>1, <3>2, AppendIsConcat
  <2>6. Append(written, r) \in Seq(Record)
    BY <2>1
  <2> QED BY <2>2, <2>3, <2>4, <2>5, <2>6, EmptyConcat DEF FifoHandOver
<1>4. CASE Unlock(t)
  <2>1. UNCHANGED <<accepted, written, flush, batch, queue>>
    BY <1>4 DEF Unlock, threadVars
  <2>2. InHand = <<>> /\ InHand' = <<>>
    BY <1>4 DEF Unlock, InHand, MutexOwned, LockedPcs
  <2> QED BY <2>1, <2>2, FifoSilent
<1> QED BY <1>1, <1>2, <1>3, <1>4 DEF LogStep

LEMMA FifoStartStep ==
  ASSUME TypeInv, MutexOwned, FifoHandOver, NEW c \in Clients,
         StartStep(c) \/ ReconfigureStep(c)
  PROVE  FifoHandOver'
<1> USE DEF TypeInv, TypeOK, Threads
<1>1. pc[c] \in {"start_init", "start_threads", "configure", "info"}
  BY DEF StartStep, Start_init, Start_threads, ReconfigureStep, Configure, Reconfigure_info
<1>2. mutex = c /\ InHand = <<>>
  BY <1>1 DEF InHand, MutexOwned, LockedPcs
<1>3. mutex' = mutex /\ UNCHANGED <<written, flush, batch, queue>>
  BY DEF StartStep, Start_init, Start_threads, ReconfigureStep, Configure, Reconfigure_info,
         threadVars
<1>4. CASE TakeIn(c, "start_threads") \/ TakeIn(c, "unlock")
  BY <1>2, <1>3, <1>4, FifoTakeIn
<1>5. CASE ~TakeIn(c, "start_threads") /\ ~TakeIn(c, "unlock")
  <2>1. accepted' = accepted /\ pc'[c] # "log_body"
    BY <1>1, <1>5 DEF StartStep, Start_init, Start_threads, ReconfigureStep, Configure,
                      Reconfigure_info, Goto
  <2>2. InHand' = <<>>
    BY <1>2, <1>3, <2>1 DEF InHand
  <2> QED BY <1>2, <1>3, <2>1, <2>2, FifoSilent
<1> QED BY <1>4, <1>5

LEMMA FifoStopStep ==
  ASSUME TypeInv, MutexOwned, Stages, FifoHandOver, NEW c \in Clients, StopStep(c)
  PROVE  FifoHandOver'
<1> USE DEF TypeInv, TypeOK, Threads
<1>1. pc[c] \in {"stop_lt", "join_lt", "stop_mt", "join_mt", "flush", "flush_write"}
  BY DEF StopStep, Stop_logging_thread, Join_logging_thread, Stop_maintenance_thread,
         Join_maintenance_thread, Flush, Flush_write, Flush_done
<1>2. mutex = c /\ InHand = <<>>
  BY <1>1 DEF InHand, MutexOwned, LockedPcs
<1>3. mutex' = mutex /\ accepted' = accepted /\ pc'[c] # "log_body"
  BY <1>1, ThreadsAssumption
     DEF StopStep, Stop_logging_thread, Join_logging_thread, Stop_maintenance_thread,
         Join_maintenance_thread, Flush, Flush_write, Flush_done, Goto
<1>4. InHand' = <<>>
  BY <1>2, <1>3 DEF InHand
<1>5. CASE Flush(c)
  <2>1. flush = <<>> /\ batch = <<>>
    BY <1>2, <1>5 DEF Flush, Stages, LoggingGone, MutexOwned, LockedPcs
  <2>2. flush' = queue /\ queue' = <<>> /\ UNCHANGED <<written, batch>>
    BY <1>5 DEF Flush
  <2>3. written \o flush \o batch = written
    BY <2>1, EmptyConcat
  <2>4. written \o queue \in Seq(Record)
    OBVIOUS
  <2>5. written' \o flush' \o batch' \o queue' \o InHand' = written \o queue
    BY <2>1, <2>2, <2>4, <1>4, EmptyConcat
  <2>6. accepted = written \o queue
    BY <2>3, <2>4, <1>2, EmptyConcat DEF FifoHandOver
  <2> QED BY <2>5, <2>6, <1>3 DEF FifoHandOver
<1>6. CASE Flush_write(c)
  <2>1. batch = <<>> /\ queue = <<>> /\ flush # <<>>
    BY <1>6 DEF Flush_write, Stages, LoggingGone, QueueEmpty
  <2>2. /\ written' = Append(written, Head(flush))
        /\ flush' = Tail(flush)
        /\ UNCHANGED <<batch, queue>>
    BY <1>6 DEF Flush_write
  <2>3. written' \o flush' = written \o flush
    BY <2>1, <2>2, WriteHead
  <2> QED BY <2>2, <2>3, <1>2, <1>3, <1>4 DEF FifoHandOver
<1>7. CASE ~Flush(c) /\ ~Flush_write(c)
  <2>1. UNCHANGED <<written, flush, batch, queue>>
    BY <1>7 DEF StopStep, Stop_logging_thread, Join_logging_thread, Stop_maintenance_thread,
                Join_maintenance_thread, Flush_done, threadVars
  <2> QED BY <2>1, <1>2, <1>3, <1>4, FifoSilent
<1> QED BY <1>5, <1>6, <1>7

LEMMA FifoLoggingStep ==
  ASSUME TypeInv, MutexOwned, Stages, FifoHandOver, LoggingStep
  PROVE  FifoHandOver'
<1> USE DEF TypeInv, TypeOK, Threads
<1>1. UNCHANGED <<mutex, pc, accepted, flush>>
  BY DEF LoggingStep, Logging_check, Logging_acquire, Logging_timeout, Logging_empty,
         Logging_swap, Logging_lock_failed, Logging_write, Logging_done, LoggingGoto
<1>2. InHand' = InHand
  BY <1>1 DEF InHand
<1>3. InHand \in Seq(Record)
  BY ThreadsAssumption DEF InHand, HasRecord
<1>4. CASE Logging_swap
  <2>1. batch = <<>> /\ flush = <<>>
    BY <1>4, ThreadsAssumption DEF Logging_swap, Stages, MutexOwned, LockedPcs
  <2>2. batch' = queue /\ queue' = <<>> /\ written' = written
    BY <1>4 DEF Logging_swap
  <2>3. written \o flush = written /\ written \o flush \o batch = written
    BY <2>1, EmptyConcat
  <2>4. written \o queue \in Seq(Record)
    OBVIOUS
  <2>5. written' \o flush' \o batch' \o queue' = written \o queue
    BY <1>1, <2>1, <2>2, <2>3, <2>4, EmptyConcat
  <2> QED BY <1>1, <1>2, <2>3, <2>5 DEF FifoHandOver
<1>5. CASE Logging_write
  <2>1. flush = <<>> /\ batch # <<>>
    BY <1>5 DEF Logging_write, Stages, LoggingGone
  <2>2. /\ written' = Append(written, Head(batch))
        /\ batch' = Tail(batch)
        /\ queue' = queue
    BY <1>5 DEF Logging_write
  <2>3. written' \o batch' = written \o batch
    BY <2>1, <2>2, WriteHead
  <2>4. written' \in Seq(Record)
    BY <2>1, <2>2, HeadAndTail
  <2>5. written \o flush = written /\ written' \o flush' = written'
    BY <1>1, <2>1, <2>4, EmptyConcat
  <2> QED BY <1>1, <1>2, <2>2, <2>3, <2>5 DEF FifoHandOver
<1>6. CASE ~Logging_swap /\ ~Logging_write
  <2>1. UNCHANGED <<written, batch, queue>>
    BY <1>6 DEF LoggingStep, Logging_check, Logging_acquire, Logging_timeout, Logging_empty,
                Logging_lock_failed, Logging_done
  <2> QED BY <1>1, <1>2, <2>1, FifoSilent
<1> QED BY <1>4, <1>5, <1>6

LEMMA FifoNext ==
  ASSUME TypeInv, MutexOwned, Stages, FifoHandOver, [Next]_vars
  PROVE  FifoHandOver'
<1>1. ASSUME NEW c \in Clients, Call(c) PROVE FifoHandOver'
  <2>1. UNCHANGED <<mutex, accepted, written, flush, batch, queue>>
    BY <1>1 DEF Call, threadVars
  <2>2. InHand' = InHand
    BY <1>1, <2>1, ThreadsAssumption
       DEF Call, Goto, InHand, MutexOwned, LockedPcs, TypeInv, TypeOK, Threads
  <2> QED BY <2>1, <2>2, FifoSilent
<1>2. ASSUME NEW t \in Threads, ThreadStep(t) PROVE FifoHandOver'
  BY <1>2, FifoLogStep, FifoStartStep, FifoStopStep DEF ThreadStep
<1>3. CASE LoggingStep
  BY <1>3, FifoLoggingStep
<1>4. CASE MaintenanceStep
  <2>1. UNCHANGED <<mutex, accepted, written, flush, batch, queue>>
    BY <1>4 DEF MaintenanceStep, Maintenance_check, Maintenance_quiet, Maintenance_rotate,
                Maintenance_sleep, MaintGoto, threadVars
  <2>2. pc[Maint] # "log_body" /\ pc'[Maint] # "log_body"
        /\ \A t \in Threads \ {Maint} : pc'[t] = pc[t]
    BY <1>4 DEF MaintenanceStep, Maintenance_check, Maintenance_quiet, Maintenance_rotate,
                Maintenance_sleep, MaintGoto, Goto, TypeInv, TypeOK, Threads
  <2>3. InHand' = InHand
    BY <2>1, <2>2 DEF InHand, TypeInv, TypeOK
  <2> QED BY <2>1, <2>3, FifoSilent
<1>5. CASE UNCHANGED vars
  <2>1. InHand' = InHand /\ UNCHANGED <<accepted, written, flush, batch, queue>>
    BY <1>5 DEF vars, threadVars, InHand
  <2> QED BY <2>1, FifoSilent
<1> QED BY <1>1, <1>2, <1>3, <1>4, <1>5 DEF Next, Terminated

-----------------------------------------------------------------------------
(* The invariant holds, and what follows from it.                          *)

LEMMA InvInit == Init => Inv
<1> SUFFICES ASSUME Init PROVE Inv
  OBVIOUS
<1>1. TypeInv
  BY TypeInit
<1>2. \A t \in Threads : pc[t] \in {"idle", "none"}
  BY DEF Init, Threads
<1>3. MutexOwned
  BY <1>2, ThreadsAssumption DEF Init, MutexOwned, LockedPcs, Threads
<1>4. CallPositions
  BY <1>2 DEF CallPositions, Threads
<1>5. Stages
  BY <1>2 DEF Init, Stages, LoggingGone, MaintGone, QueueEmpty, Quiet, Threads
<1>6. FifoHandOver
  BY DEF Init, FifoHandOver, InHand
<1> QED BY <1>1, <1>3, <1>4, <1>5, <1>6 DEF Inv

LEMMA InvNext == Inv /\ [Next]_vars => Inv'
BY TypeNext, TypePositions, MutexNext, CallPositionsNext, StagesNext, FifoNext DEF Inv

LEMMA InvHolds == Spec => []Inv
BY InvInit, InvNext, PTL DEF Spec

(* A record taken in is in exactly one place, in order, until it is        *)
(* written, in both modes and across Stop and Reconfigure.                 *)
THEOREM HandOver == Spec => []FifoHandOver
<1>1. Inv => FifoHandOver
  BY DEF Inv
<1> QED BY <1>1, InvHolds, PTL

(* Targets are written to by one thread at a time, though the logging      *)
(* thread writes without the mutex.                                        *)
THEOREM WritersExclude == Spec => []OneWriter
<1>1. Inv => OneWriter
  <2> SUFFICES ASSUME Inv, NEW t \in Threads, Writes(t)
               PROVE  lpc # "write" /\ \A s \in Threads \ {t} : ~Writes(s)
    BY DEF OneWriter
  <2>1. mutex = t /\ \A s \in Threads \ {t} : ~Writes(s)
    BY DEF Inv, MutexOwned, LockedPcs, Writes
  <2>2. CASE pc[t] = "flush_write"
    <3>1. t \in Clients
      BY <2>2 DEF Inv, TypeInv, TypeOK, MaintPcs, Threads
    <3> QED BY <2>1, <2>2, <3>1 DEF Inv, Stages, LoggingGone
  <2>3. CASE pc[t] = "log_body" /\ ~async
    BY <2>1, <2>3 DEF Inv, Stages
  <2> QED BY <2>2, <2>3 DEF Writes
<1> QED BY <1>1, InvHolds, PTL

(* When Stop has run and nothing has been started since, nothing is left   *)
(* between Log_entry and the targets.                                      *)
LEMMA QuietIsDrained ==
  ASSUME Inv, NEW c \in Clients, Quiet(c)
  PROVE  written = accepted /\ lpc = "none" /\ pc[Maint] = "none"
<1>1. lpc = "none" /\ pc[Maint] = "none" /\ queue = <<>>
  BY DEF Inv, Stages, LoggingGone, MaintGone, QueueEmpty
<1>2. mutex = c /\ pc[c] \notin {"log_body", "flush_write"}
  BY DEF Inv, MutexOwned, LockedPcs, Quiet, Threads
<1>3. flush = <<>> /\ batch = <<>> /\ InHand = <<>>
  BY <1>1, <1>2 DEF Inv, Stages, MutexOwned, LockedPcs, InHand, Threads
<1>4. written \o flush \o batch \o queue \o InHand = written
  BY <1>1, <1>3, EmptyConcat DEF Inv, TypeInv, TypeOK
<1> QED BY <1>1, <1>4 DEF Inv, FifoHandOver

(* When Stop returns, every record taken in has been written and both      *)
(* threads are gone.                                                       *)
THEOREM StopIsComplete == Spec => []StopFlushes
<1>1. Inv => StopFlushes
  BY QuietIsDrained DEF StopFlushes, Quiet
<1> QED BY <1>1, InvHolds, PTL

(* Reconfigure replaces targets and routing rules when no other thread can *)
(* be reading them and no record is pending.                               *)
THEOREM ReconfigureIsSafe == Spec => []ReconfigureQuiescent
<1>1. Inv => ReconfigureQuiescent
  BY QuietIsDrained DEF ReconfigureQuiescent, Quiet
<1> QED BY <1>1, InvHolds, PTL

-----------------------------------------------------------------------------
(* The logger implements the channel.                                      *)

(* A concatenation starts with its first part.                             *)
LEMMA ConcatStartsWith ==
  ASSUME NEW S, NEW s \in Seq(S), NEW t \in Seq(S), NEW n \in 1 .. Len(s)
  PROVE  /\ s \o t \in Seq(S)
         /\ n \in 1 .. Len(s \o t)
         /\ (s \o t)[n] = s[n]
BY ConcatProperties, LenProperties

(* What has been written is the beginning of what has been taken in.       *)
LEMMA WrittenIsPrefix ==
  ASSUME Inv, NEW n \in 1 .. Len(written)
  PROVE  n \in 1 .. Len(accepted) /\ accepted[n] = written[n]
<1> DEFINE s1 == written \o flush
           s2 == s1 \o batch
           s3 == s2 \o queue
<1>1. written \in Seq(Record) /\ flush \in Seq(Record) /\ batch \in Seq(Record)
      /\ queue \in Seq(Record)
  BY DEF Inv, TypeInv, TypeOK
<1>2. InHand \in Seq(Record)
  BY ThreadsAssumption DEF Inv, InHand, TypeInv, TypeOK, HasRecord, Threads
<1>3. s1 \in Seq(Record) /\ n \in 1 .. Len(s1) /\ s1[n] = written[n]
  BY <1>1, ConcatStartsWith
<1> HIDE DEF s1
<1>4. s2 \in Seq(Record) /\ n \in 1 .. Len(s2) /\ s2[n] = written[n]
  BY <1>1, <1>3, ConcatStartsWith
<1> HIDE DEF s2
<1>5. s3 \in Seq(Record) /\ n \in 1 .. Len(s3) /\ s3[n] = written[n]
  BY <1>1, <1>4, ConcatStartsWith
<1>6. accepted = s3 \o InHand
  BY DEF Inv, FifoHandOver, s1, s2
<1> HIDE DEF s3
<1> QED BY <1>2, <1>5, <1>6, ConcatStartsWith

LEMMA WrittenIsPrefixPrime ==
  (Inv => \A n \in 1 .. Len(written) : n \in 1 .. Len(accepted) /\ accepted[n] = written[n])'
<1>1. Inv => \A n \in 1 .. Len(written) : n \in 1 .. Len(accepted) /\ accepted[n] = written[n]
  BY WrittenIsPrefix
<1> QED BY <1>1, PTL

(* Each step takes a record in, hands one over, or does neither.           *)
LEMMA OneRecordAtATime ==
  ASSUME Inv, [Next]_vars
  PROVE  \/ UNCHANGED <<accepted, written>>
         \/ Channel!Accept
         \/ accepted' = accepted /\ \E r \in Record : written' = Append(written, r)
<1> USE DEF Inv, TypeInv, TypeOK, Threads
<1>1. ASSUME NEW c \in Clients, Call(c) PROVE UNCHANGED <<accepted, written>>
  BY <1>1 DEF Call
<1>2. ASSUME NEW t \in Threads, LogStep(t)
      PROVE  \/ UNCHANGED <<accepted, written>>
             \/ Channel!Accept
             \/ accepted' = accepted /\ \E r \in Record : written' = Append(written, r)
  <2>1. CASE Lock(t)
    BY <2>1 DEF Lock, TakeIn, Channel!Accept
  <2>2. CASE Log_queue(t) \/ Unlock(t)
    BY <2>2 DEF Log_queue, Unlock
  <2>3. CASE Log_write(t)
    BY <2>3 DEF Log_write, HasRecord
  <2> QED BY <1>2, <2>1, <2>2, <2>3 DEF LogStep
<1>3. ASSUME NEW c \in Clients, StartStep(c) \/ ReconfigureStep(c)
      PROVE  UNCHANGED <<accepted, written>> \/ Channel!Accept
  <2>1. CASE Start_init(c)
    BY <2>1 DEF Start_init, TakeIn, Channel!Accept
  <2>2. CASE Start_threads(c) \/ Configure(c)
    BY <2>2 DEF Start_threads, Configure
  <2>3. CASE Reconfigure_info(c)
    BY <2>3 DEF Reconfigure_info, TakeIn, Channel!Accept
  <2> QED BY <1>3, <2>1, <2>2, <2>3 DEF StartStep, ReconfigureStep
<1>4. ASSUME NEW c \in Clients, StopStep(c)
      PROVE  accepted' = accepted
             /\ (written' = written \/ \E r \in Record : written' = Append(written, r))
  <2>1. CASE Flush_write(c)
    BY <2>1, HeadAndTail DEF Flush_write
  <2>2. CASE ~Flush_write(c)
    BY <1>4, <2>2 DEF StopStep, Stop_logging_thread, Join_logging_thread,
       Stop_maintenance_thread, Join_maintenance_thread, Flush, Flush_done
  <2> QED BY <2>1, <2>2
<1>5. CASE LoggingStep
  <2>1. accepted' = accepted
    BY <1>5 DEF LoggingStep, Logging_check, Logging_acquire, Logging_timeout, Logging_empty,
       Logging_swap, Logging_lock_failed, Logging_write, Logging_done, LoggingGoto
  <2>2. CASE Logging_write
    BY <2>1, <2>2, HeadAndTail DEF Logging_write
  <2>3. CASE ~Logging_write
    BY <1>5, <2>1, <2>3 DEF LoggingStep, Logging_check, Logging_acquire, Logging_timeout,
       Logging_empty, Logging_swap, Logging_lock_failed, Logging_done
  <2> QED BY <2>2, <2>3
<1>6. CASE MaintenanceStep
  BY <1>6 DEF MaintenanceStep, Maintenance_check, Maintenance_quiet, Maintenance_rotate,
     Maintenance_sleep, MaintGoto
<1>7. CASE UNCHANGED vars
  BY <1>7 DEF vars
<1> QED
  BY <1>1, <1>2, <1>3, <1>4, <1>5, <1>6, <1>7 DEF Next, ThreadStep, Terminated

LEMMA ChannelStep ==
  ASSUME Inv, Inv', [Next]_vars
  PROVE  [Channel!Next]_(Channel!vars)
<1>1. CASE UNCHANGED <<accepted, written>>
  BY <1>1 DEF Channel!vars
<1>2. CASE Channel!Accept
  BY <1>2 DEF Channel!Next
<1>3. CASE accepted' = accepted /\ \E r \in Record : written' = Append(written, r)
  <2>1. PICK r \in Record : written' = Append(written, r)
    BY <1>3
  <2>2. written \in Seq(Record) /\ accepted \in Seq(Record)
    BY DEF Inv, TypeInv, TypeOK
  <2>3. Len(written) + 1 \in 1 .. Len(written') /\ written'[Len(written) + 1] = r
    BY <2>1, <2>2
  <2>4. Len(written) + 1 \in 1 .. Len(accepted) /\ accepted[Len(written) + 1] = r
    BY <1>3, <2>3, WrittenIsPrefixPrime
  <2>5. Len(written) < Len(accepted)
    BY <2>2, <2>4
  <2> QED BY <1>3, <2>1, <2>4, <2>5 DEF Channel!Deliver, Channel!Next
<1> QED BY <1>1, <1>2, <1>3, OneRecordAtATime

(* Log_entry, Process_logs, Stop and Reconfigure together are a channel    *)
(* that hands each record over exactly once, in the order of acceptance.   *)
THEOREM Implements == Spec => ImplementsChannel
<1>1. Init => Channel!Init
  BY DEF Init, Channel!Init
<1>2. Inv /\ Inv' /\ [Next]_vars => [Channel!Next]_(Channel!vars)
  BY ChannelStep
<1> QED BY <1>1, <1>2, InvHolds, PTL DEF Spec, ImplementsChannel, Channel!Spec

=============================================================================
