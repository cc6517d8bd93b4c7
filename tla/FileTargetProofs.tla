--------------------------- MODULE FileTargetProofs ---------------------------
(* Theorems about module FileTarget, for any names and numbers of records, *)
(* setups and rotations, whatever the file system refuses.                 *)
EXTENDS FileTarget, SequenceTheorems, TLAPS

Labels == {"idle", "try", "close", "check", "open", "reopened", "put", "update",
           "directories", "setup_open", "setup_end", "time", "size", "measure", "terminated"}

(* A thread has a record in hand, and has not reported on it.              *)
Pending(t) == pc[t] \in {"try", "close", "check", "open", "reopened", "put"} /\ attempt[t] # "rotate"

Unwritten(r) == \A n \in Names : ~InFile(r, n)

(* The record in hand is in no file, and no other thread's.                *)
InHand ==
    /\ \A t \in Threads : pc[t] \in {"try", "put"} => attempt[t] # "rotate"
    /\ \A t \in Threads : Pending(t) =>
           rec[t] \in 1 .. records /\ rec[t] \notin reported \cup failed /\ Unwritten(rec[t])
    /\ \A s, t \in Threads : s # t /\ Pending(s) /\ Pending(t) => rec[s] # rec[t]

(* The maintenance thread works on a target that has been set up, and      *)
(* tells the old file before it makes the directory of the new one.        *)
SetUp ==
    /\ maintained => current # NoName /\ (StorageDuration => interval)
    /\ pc[Starter] \in {"setup_open", "setup_end"} => current # NoName
    /\ pc[Writer] \notin {"update", "directories", "setup_open", "setup_end", "time", "size", "measure"}
    /\ pc[Starter] \notin {"time", "size", "measure"}
    /\ pc[Maint] = "measure" => MaxFilesize
    /\ pc[Maint] # "idle" => maintained
    /\ pc[Maint] = "time" => LogFrequency
    /\ pc[Maint] = "directories" => rec[Maint] \in reported \cup failed

Inv == TypeOK /\ InHand /\ FailedIsNotWritten /\ WrittenOnce /\ SetUp

(* A record that is put on the stream is the last of one file, or nowhere. *)
LEMMA PutOnce ==
    ASSUME TypeOK, NEW r \in 1 .. records, Put(r)
    PROVE  /\ isOpen' = isOpen /\ on' = on /\ good' \in BOOLEAN
           /\ files' \in [Names -> Seq(1 .. records)]
           /\ \A n \in Names : \A q : InFile(q, n)' => InFile(q, n) \/ q = r
           /\ Unwritten(r) /\ WrittenOnce => WrittenOnce'
<1>1. /\ isOpen' = isOpen /\ on' = on /\ good' \in BOOLEAN
      /\ files' = files \/ (on \in Names /\ files' = [files EXCEPT ![on] = Append(@, r)])
  BY DEF Put, TypeOK, stream
<1>2. CASE files' = files
  BY <1>1, <1>2 DEF TypeOK, InFile, WrittenOnce
<1>3. CASE on \in Names /\ files' = [files EXCEPT ![on] = Append(@, r)]
  <2>1. files \in [Names -> Seq(1 .. records)]
    BY DEF TypeOK
  <2>2. files' \in [Names -> Seq(1 .. records)]
    BY <1>3, <2>1
  <2>3. \A n \in Names : n # on => files'[n] = files[n]
    BY <1>3, <2>1
  <2>4. /\ files[on] \in Seq(1 .. records) /\ Len(files[on]) \in Nat
        /\ files'[on] = Append(files[on], r)
    BY <1>3, <2>1
  <2>5. /\ DOMAIN files'[on] = 1 .. (Len(files[on]) + 1) /\ DOMAIN files[on] = 1 .. Len(files[on])
        /\ \A i \in 1 .. Len(files[on]) : files'[on][i] = files[on][i]
        /\ files'[on][Len(files[on]) + 1] = r
    BY <2>4
  <2>6. \A i \in DOMAIN files'[on] : i \in DOMAIN files[on] \/ i = Len(files[on]) + 1
    BY <2>4, <2>5
  <2>7. \A n \in Names : \A i \in DOMAIN files'[n] :
            \/ i \in DOMAIN files[n] /\ files'[n][i] = files[n][i]
            \/ n = on /\ i = Len(files[on]) + 1 /\ files'[n][i] = r
    BY <2>3, <2>5, <2>6
  <2>8. \A n \in Names : \A q : InFile(q, n)' => InFile(q, n) \/ q = r
    BY <2>7 DEF InFile
  <2>9. ASSUME Unwritten(r), WrittenOnce PROVE WrittenOnce'
    <3> SUFFICES ASSUME NEW n \in Names, NEW m \in Names,
                        NEW i \in DOMAIN files'[n], NEW j \in DOMAIN files'[m],
                        files'[n][i] = files'[m][j]
                 PROVE  n = m /\ i = j
      BY DEF WrittenOnce
    <3>1. \A k \in Names : \A l \in DOMAIN files[k] : files[k][l] # r
      BY <2>9 DEF Unwritten, InFile
    <3> QED BY <2>7, <2>9, <3>1 DEF WrittenOnce
  <2> QED BY <1>1, <2>2, <2>8, <2>9
<1> QED BY <1>1, <1>2, <1>3

LEMMA InvInit == Init => Inv
<1> SUFFICES ASSUME Init PROVE Inv
  OBVIOUS
<1> USE NamesAssumption, ThreadsAssumption DEF Init
<1>1. TypeOK
  <2>1. files \in [Names -> Seq(1 .. records)]
    OBVIOUS
  <2>2. /\ isOpen \in BOOLEAN /\ good \in BOOLEAN /\ interval \in BOOLEAN /\ maintained \in BOOLEAN
        /\ (isOpen <=> on \in Names) /\ on \in Names \cup {NoName} /\ current \in Names \cup {NoName}
    OBVIOUS
  <2>3. /\ pc \in [Threads -> Labels] /\ due \in BOOLEAN
        /\ attempt \in [Threads -> {"first", "refresh", "second", "rotate"}]
    BY DEF Labels
  <2>4. /\ rec \in [Threads -> 0 .. records] /\ records \in Nat /\ setups \in Nat /\ rotations \in Nat
        /\ reported \subseteq 1 .. records /\ failed \subseteq 1 .. records
    OBVIOUS
  <2> QED BY <2>1, <2>2, <2>3, <2>4 DEF TypeOK, Labels
<1>2. InHand
  BY DEF InHand, Pending, Threads
<1>3. FailedIsNotWritten /\ WrittenOnce
  BY DEF FailedIsNotWritten, WrittenOnce
<1>4. SetUp
  BY DEF SetUp, Threads
<1> QED BY <1>1, <1>2, <1>3, <1>4 DEF Inv

(* The disjuncts of a step, for the lemmas below.                          *)
LEMMA Steps ==
    ASSUME [Next]_vars
    PROVE  \/ Write_log \/ Setup \/ Setup_open \/ Setup_end
           \/ Maintenance \/ Maintenance_time \/ Maintenance_size \/ Maintenance_measure
           \/ \E t \in Threads : WriteStep(t)
           \/ UNCHANGED vars
BY DEF Next, Quiet

Attempts == {"first", "refresh", "second", "rotate"}

(* The parts of TypeOK that steps disturb apart from each other.           *)
StreamType == isOpen \in BOOLEAN /\ good \in BOOLEAN /\ (isOpen <=> on \in Names) /\ on \in Names \cup {NoName}
TargetType == current \in Names \cup {NoName} /\ interval \in BOOLEAN /\ maintained \in BOOLEAN
ThreadType == pc \in [Threads -> Labels] /\ due \in BOOLEAN /\ attempt \in [Threads -> Attempts]
RecordType ==
    /\ rec \in [Threads -> 0 .. records] /\ files \in [Names -> Seq(1 .. records)]
    /\ records \in Nat /\ setups \in Nat /\ rotations \in Nat
    /\ reported \subseteq 1 .. records /\ failed \subseteq 1 .. records

LEMMA TypeParts == TypeOK <=> StreamType /\ TargetType /\ ThreadType /\ RecordType
BY DEF TypeOK, StreamType, TargetType, ThreadType, RecordType, Labels, Attempts

(* A new record is in no file and was not reported.                        *)
LEMMA NewRecord ==
    ASSUME TypeOK, NEW t \in Threads, BeginWrite(t), UNCHANGED <<files, setups, rotations, reported, failed>>
    PROVE  /\ RecordType' /\ pc' \in [Threads -> Labels] /\ attempt' \in [Threads -> Attempts]
           /\ rec'[t] \in 1 .. records' /\ rec'[t] \notin reported \cup failed /\ Unwritten(rec'[t])
           /\ \A s \in Threads : s # t => rec'[s] = rec[s] /\ rec'[t] # rec[s]
           /\ 1 .. records \subseteq 1 .. records'
<1> USE TypeParts DEF RecordType, ThreadType, BeginWrite
<1>1. records' = records + 1 /\ records \in Nat /\ rec' = [rec EXCEPT ![t] = records + 1]
  OBVIOUS
<1>2. 1 .. records \subseteq 1 .. records' /\ rec'[t] = records + 1
  BY <1>1
<1>3. files' \in [Names -> Seq(1 .. records')]
  <2>1. \A n \in Names : files[n] \in Seq(1 .. records')
    <3> SUFFICES ASSUME NEW n \in Names PROVE files[n] \in Seq(1 .. records')
      OBVIOUS
    <3>1. files[n] \in Seq(1 .. records)
      OBVIOUS
    <3>2. \A i \in 1 .. Len(files[n]) : files[n][i] \in 1 .. records'
      BY <3>1, <1>2
    <3> QED BY <3>1, <3>2
  <2> QED BY <2>1
<1>4. rec' \in [Threads -> 0 .. records']
  BY <1>1
<1>5. Unwritten(rec'[t])
  <2> SUFFICES ASSUME NEW n \in Names, NEW i \in DOMAIN files[n], files[n][i] = records + 1 PROVE FALSE
    BY <1>2 DEF Unwritten, InFile
  <2>1. files[n] \in Seq(1 .. records) /\ DOMAIN files[n] = 1 .. Len(files[n])
    OBVIOUS
  <2>2. files[n][i] \in 1 .. records
    BY <2>1
  <2> QED BY <1>1, <2>2
<1>6. pc' \in [Threads -> Labels] /\ attempt' \in [Threads -> Attempts]
  BY DEF Goto, Labels, Attempts
<1>7. \A s \in Threads : s # t => rec'[s] = rec[s] /\ rec'[t] # rec[s]
  BY <1>1, <1>2
<1> QED BY <1>1, <1>2, <1>3, <1>4, <1>5, <1>6, <1>7

LEMMA TypeNext == Inv /\ [Next]_vars => TypeOK'
<1> SUFFICES ASSUME Inv, [Next]_vars PROVE TypeOK'
  OBVIOUS
<1> SUFFICES StreamType' /\ TargetType' /\ ThreadType' /\ RecordType'
  BY TypeParts DEF TypeOK, StreamType, TargetType, ThreadType, RecordType, Labels, Attempts
<1> USE NamesAssumption
<1>t. TypeOK /\ StreamType /\ TargetType /\ ThreadType /\ RecordType
  BY TypeParts DEF Inv
<1>0. Writer \in Threads /\ Maint \in Threads
  BY DEF Threads
<1>1. CASE Write_log
  <2>1. BeginWrite(Writer) /\ UNCHANGED <<files, setups, rotations, reported, failed>>
    BY <1>1 DEF Write_log, history
  <2>2. RecordType' /\ pc' \in [Threads -> Labels] /\ attempt' \in [Threads -> Attempts]
    BY <2>1, <1>0, <1>t, NewRecord
  <2>3. due' \in BOOLEAN
    BY <1>1, <1>t DEF Write_log, ThreadType
  <2> QED BY <1>1, <1>t, <2>2, <2>3 DEF Write_log, StreamType, TargetType, ThreadType, stream, target
<1>2. CASE Setup
  <2>1. ThreadType'
    BY <1>2, <1>t DEF Setup, ThreadType, Goto, Labels
  <2> QED BY <1>2, <1>t, <2>1 DEF Setup, StreamType, TargetType, RecordType, stream, target, history
<1>3. CASE Setup_open \/ Setup_end
  <2>1. ThreadType'
    BY <1>3, <1>t DEF Setup_open, Setup_end, ThreadType, Goto, Labels
  <2>2. RecordType'
    BY <1>3, <1>t DEF Setup_open, Setup_end, RecordType, history, counted
  <2>3. StreamType'
    <3>1. CASE Setup_open
      BY <3>1, <1>t DEF Setup_open, Open, StreamType, TargetType
    <3>2. CASE Setup_end
      BY <3>2, <1>t DEF Setup_end, StreamType, stream
    <3> QED BY <1>3, <3>1, <3>2
  <2>4. TargetType'
    <3>1. CASE Setup_open
      BY <3>1, <1>t DEF Setup_open, TargetType, target
    <3>2. CASE Setup_end
      <4>1. interval' \in BOOLEAN
        BY <3>2, Zenon DEF Setup_end
      <4> QED BY <3>2, <4>1, <1>t DEF Setup_end, TargetType
    <3> QED BY <1>3, <3>1, <3>2
  <2> QED BY <2>1, <2>2, <2>3, <2>4
<1>4. CASE Maintenance \/ Maintenance_time \/ Maintenance_size \/ Maintenance_measure
  <2>1. ThreadType'
    BY <1>4, <1>t DEF Maintenance, Maintenance_time, Maintenance_size, Maintenance_measure, Decide, ThreadType, Goto, Labels
  <2>2. RecordType'
    <3>1. rotations' \in Nat
      BY <1>4, <1>t DEF Maintenance, Maintenance_time, Maintenance_size, Maintenance_measure, Decide, RecordType, counted
    <3> QED BY <1>4, <3>1, <1>t DEF Maintenance, Maintenance_time, Maintenance_size, Maintenance_measure, Decide, RecordType, history, counted
  <2> QED BY <1>4, <1>t, <2>1, <2>2 DEF Maintenance, Maintenance_time, Maintenance_size, Maintenance_measure, Decide,
                                         StreamType, TargetType, stream, target
<1>5. ASSUME NEW t \in Threads, WriteStep(t) PROVE StreamType' /\ TargetType' /\ ThreadType' /\ RecordType'
  <2>1. CASE Try(t) \/ Reopen_close(t) \/ Reopen_check(t) \/ Reopen_open(t)
    BY <2>1, <1>t DEF Try, Reopen_close, Reopen_check, Reopen_open, Close, Open, StreamType, TargetType, ThreadType,
                      RecordType, stream, target, history, counted, Goto, Labels
  <2>2. CASE Reopen_done(t)
    <3>1. StreamType' /\ TargetType' /\ ThreadType'
      BY <2>2, <1>t DEF Reopen_done, EndWrite, StreamType, TargetType, ThreadType, stream, target, Goto, Labels, Attempts
    <3>2. failed' = failed \/ (rec[t] \in 1 .. records /\ failed' = failed \cup {rec[t]})
      BY <2>2, <1>t DEF Reopen_done, Inv, InHand, Pending, ThreadType
    <3> QED BY <2>2, <3>1, <3>2, <1>t DEF Reopen_done, RecordType, counted
  <2>3. CASE Put_record(t)
    <3>1. rec[t] \in 1 .. records
      BY <2>3 DEF Put_record, Inv, InHand, Pending
    <3>2. /\ isOpen' = isOpen /\ on' = on /\ good' \in BOOLEAN
          /\ files' \in [Names -> Seq(1 .. records)]
      BY <2>3, <3>1, <1>t, PutOnce DEF Put_record
    <3> QED BY <2>3, <3>1, <3>2, <1>t DEF Put_record, EndWrite, StreamType, TargetType, ThreadType, RecordType,
                                           target, counted, Goto, Labels
  <2>4. CASE Update_transfer(t)
    <3>1. CASE current # NoName
      BY <3>1, <2>4, <1>t, NewRecord DEF Update_transfer, StreamType, TargetType, ThreadType, stream, target, history
    <3>2. CASE current = NoName
      BY <3>2, <2>4, <1>t DEF Update_transfer, StreamType, TargetType, ThreadType, RecordType, stream, target, history,
                              Goto, Labels
    <3> QED BY <3>1, <3>2
  <2>5. CASE Update_directories(t)
    BY <2>5, <1>t DEF Update_directories, StreamType, TargetType, ThreadType, RecordType, stream, counted, history,
                      Goto, Labels, Attempts
  <2> QED BY <1>5, <2>1, <2>2, <2>3, <2>4, <2>5 DEF WriteStep
<1>6. CASE UNCHANGED vars
  BY <1>6, <1>t DEF vars, StreamType, TargetType, ThreadType, RecordType, stream, target, history, counted
<1> QED BY <1>1, <1>2, <1>3, <1>4, <1>5, <1>6, Steps

(* The part of the invariant that records depend on.                       *)
Records == InHand /\ FailedIsNotWritten /\ WrittenOnce

(* It holds as long as no file changes, nothing is reported, and no thread *)
(* takes a record up or begins again with the one it had.                  *)
LEMMA RecordsKept ==
    ASSUME Inv, UNCHANGED <<records, files, reported, failed, rec>>,
           \A t \in Threads : pc'[t] \in {"try", "put"} => attempt'[t] # "rotate",
           \A t \in Threads : Pending(t)' => Pending(t)
    PROVE  Records'
<1>1. \A r : Unwritten(r)' <=> Unwritten(r)
  BY DEF Unwritten, InFile
<1>2. InHand'
  BY <1>1 DEF Inv, InHand
<1>3. FailedIsNotWritten' /\ WrittenOnce'
  BY DEF Inv, FailedIsNotWritten, Written, InFile, WrittenOnce
<1> QED BY <1>2, <1>3 DEF Records

(* A thread takes up a new record.                                         *)
LEMMA RecordsTaken ==
    ASSUME Inv, NEW t \in Threads, BeginWrite(t), UNCHANGED <<files, setups, rotations, reported, failed>>
    PROVE  Records'
<1>1. /\ rec'[t] \in 1 .. records' /\ rec'[t] \notin reported \cup failed /\ Unwritten(rec'[t])
      /\ \A s \in Threads : s # t => rec'[s] = rec[s] /\ rec'[t] # rec[s]
      /\ 1 .. records \subseteq 1 .. records'
  BY NewRecord DEF Inv
<1>2. pc'[t] = "try" /\ attempt'[t] = "first" /\ \A s \in Threads : s # t => pc'[s] = pc[s] /\ attempt'[s] = attempt[s]
  BY DEF BeginWrite, Goto, Inv, TypeOK
<1>3. \A r : Unwritten(r)' <=> Unwritten(r)
  BY DEF Unwritten, InFile
<1>4. \A s \in Threads : s # t => (Pending(s)' <=> Pending(s))
  BY <1>2 DEF Pending
<1>5. InHand'
  <2>1. \A s \in Threads : pc'[s] \in {"try", "put"} => attempt'[s] # "rotate"
    BY <1>2 DEF Inv, InHand
  <2>2. \A s \in Threads : Pending(s)' =>
            rec'[s] \in 1 .. records' /\ rec'[s] \notin reported' \cup failed' /\ Unwritten(rec[s])'
    BY <1>1, <1>3, <1>4 DEF Inv, InHand
  <2>3. \A q, s \in Threads : q # s /\ Pending(q)' /\ Pending(s)' => rec'[q] # rec'[s]
    BY <1>1, <1>4 DEF Inv, InHand
  <2> QED BY <2>1, <2>2, <2>3, <1>3 DEF InHand
<1>6. FailedIsNotWritten' /\ WrittenOnce'
  <2>1. failed \subseteq 1 .. records
    BY DEF Inv, TypeOK
  <2> QED BY <2>1 DEF Inv, FailedIsNotWritten, Written, InFile, WrittenOnce
<1> QED BY <1>5, <1>6 DEF Records

LEMMA RecordsNext == Inv /\ [Next]_vars => Records'
<1> SUFFICES ASSUME Inv, [Next]_vars PROVE Records'
  OBVIOUS
<1>0. Writer \in Threads /\ Maint \in Threads
  BY DEF Threads
<1>t. /\ pc \in [Threads -> Labels] /\ attempt \in [Threads -> Attempts] /\ rec \in [Threads -> 0 .. records]
      /\ reported \subseteq 1 .. records /\ failed \subseteq 1 .. records
  BY DEF Inv, TypeOK, Labels, Attempts
<1>i. \A t \in Threads : pc[t] \in {"try", "put"} => attempt[t] # "rotate"
  BY DEF Inv, InHand
<1>1. CASE Write_log
  BY <1>1, <1>0, RecordsTaken DEF Write_log, history
<1>2. CASE Setup \/ Setup_open \/ Setup_end
  <2>1. UNCHANGED <<records, files, reported, failed, rec, attempt>>
    BY <1>2 DEF Setup, Setup_open, Setup_end, history, counted
  <2>2. \A t \in Threads : pc'[t] = pc[t] \/ pc'[t] \in {"update", "setup_end", "idle"}
    BY <1>2, <1>t DEF Setup, Setup_open, Setup_end, Goto
  <2> QED BY <2>1, <2>2, <1>i, RecordsKept DEF Pending
<1>3. CASE Maintenance \/ Maintenance_time \/ Maintenance_size \/ Maintenance_measure
  <2>1. UNCHANGED <<records, files, reported, failed, rec, attempt>>
    BY <1>3 DEF Maintenance, Maintenance_time, Maintenance_size, Maintenance_measure, Decide, history, counted
  <2>2. \A t \in Threads : pc'[t] = pc[t] \/ pc'[t] \in {"update", "time", "size", "measure", "terminated", "idle"}
    BY <1>3, <1>t DEF Maintenance, Maintenance_time, Maintenance_size, Maintenance_measure, Decide, Goto
  <2> QED BY <2>1, <2>2, <1>i, RecordsKept DEF Pending
<1>4. ASSUME NEW t \in Threads, WriteStep(t) PROVE Records'
  <2>1. CASE Try(t) \/ Reopen_close(t) \/ Reopen_check(t) \/ Reopen_open(t)
    <3>1. UNCHANGED <<records, files, reported, failed, rec, attempt>>
      BY <2>1 DEF Try, Reopen_close, Reopen_check, Reopen_open, history, counted
    <3>2. /\ \A s \in Threads : s # t => pc'[s] = pc[s]
          /\ pc[t] \in {"try", "close", "check", "open"}
          /\ pc'[t] = "put" => pc[t] = "try"
          /\ pc'[t] # "try"
      BY <2>1, <1>t DEF Try, Reopen_close, Reopen_check, Reopen_open, Goto
    <3>3. \A s \in Threads : pc'[s] \in {"try", "put"} => attempt'[s] # "rotate"
      BY <3>1, <3>2, <1>i
    <3>4. \A s \in Threads : Pending(s)' => Pending(s)
      BY <3>1, <3>2 DEF Pending
    <3> QED BY <3>1, <3>3, <3>4, RecordsKept
  <2>2. CASE Reopen_done(t)
    <3>1. UNCHANGED <<records, files, reported, rec>> /\ pc[t] = "reopened"
      BY <2>2 DEF Reopen_done, counted
    <3>2. \A s \in Threads : s # t => pc'[s] = pc[s] /\ attempt'[s] = attempt[s]
      BY <2>2, <1>t DEF Reopen_done, EndWrite, Goto
    <3>3. CASE failed' = failed
      <4>1. pc'[t] \in {"try", "put"} => attempt'[t] # "rotate"
        BY <2>2, <1>t DEF Reopen_done, EndWrite, Goto
      <4>2. attempt[t] = "rotate" => pc'[t] \in {"idle", "directories"}
        BY <2>2, <1>t DEF Reopen_done, EndWrite, Goto
      <4>3. \A s \in Threads : Pending(s)' => Pending(s)
        BY <3>1, <3>2, <4>2 DEF Pending
      <4> QED BY <3>1, <3>2, <3>3, <4>1, <4>3, <1>i, RecordsKept
    <3>4. CASE failed' # failed
      <4>1. /\ attempt[t] \in {"refresh", "second"} /\ failed' = failed \cup {rec[t]}
            /\ pc'[t] \in {"idle", "directories"}
        BY <2>2, <3>4, <1>t DEF Reopen_done, EndWrite, Goto
      <4>2. Pending(t) /\ ~Pending(t)'
        BY <3>1, <4>1 DEF Pending
      <4>3. \A s \in Threads : s # t => (Pending(s)' <=> Pending(s))
        BY <3>2 DEF Pending
      <4>4. \A s \in Threads : s # t /\ Pending(s) => rec[s] # rec[t]
        BY <4>2 DEF Inv, InHand
      <4>5. rec[t] \notin reported /\ Unwritten(rec[t]) /\ \A r : Unwritten(r)' <=> Unwritten(r)
        BY <3>1, <4>2 DEF Inv, InHand, Unwritten, InFile
      <4>6. InHand'
        <5>1. \A s \in Threads : pc'[s] \in {"try", "put"} => attempt'[s] # "rotate"
          BY <3>2, <4>1, <1>i
        <5>2. \A s \in Threads : Pending(s)' =>
                  rec'[s] \in 1 .. records' /\ rec'[s] \notin reported' \cup failed' /\ Unwritten(rec[s])'
          BY <3>1, <4>1, <4>2, <4>3, <4>4, <4>5 DEF Inv, InHand
        <5>3. \A q, s \in Threads : q # s /\ Pending(q)' /\ Pending(s)' => rec'[q] # rec'[s]
          BY <3>1, <4>2, <4>3 DEF Inv, InHand
        <5> QED BY <5>1, <5>2, <5>3 DEF InHand
      <4>7. FailedIsNotWritten' /\ WrittenOnce'
        BY <3>1, <4>1, <4>5 DEF Inv, FailedIsNotWritten, Written, Unwritten, InFile, WrittenOnce
      <4> QED BY <4>6, <4>7 DEF Records
    <3> QED BY <3>3, <3>4
  <2>3. CASE Put_record(t)
    <3>1. Pending(t) /\ rec[t] \in 1 .. records /\ rec[t] \notin reported \cup failed /\ Unwritten(rec[t])
      BY <2>3 DEF Put_record, Inv, InHand, Pending
    <3>2. /\ UNCHANGED <<records, rec, attempt, failed>> /\ reported' = reported \cup {rec[t]}
          /\ Put(rec[t])
      BY <2>3 DEF Put_record, counted
    <3>3. pc'[t] \in {"idle", "directories"} /\ \A s \in Threads : s # t => pc'[s] = pc[s]
      BY <2>3, <1>t DEF Put_record, EndWrite, Goto
    <3>4. (\A n \in Names : \A q : InFile(q, n)' => InFile(q, n) \/ q = rec[t]) /\ WrittenOnce'
      BY <3>1, <3>2, PutOnce DEF Inv
    <3>5. ~Pending(t)' /\ \A s \in Threads : s # t => (Pending(s)' <=> Pending(s))
      BY <3>2, <3>3 DEF Pending
    <3>6. \A s \in Threads : s # t /\ Pending(s) => rec[s] # rec[t]
      BY <3>1 DEF Inv, InHand
    <3>7. InHand'
      <4>1. \A s \in Threads : pc'[s] \in {"try", "put"} => attempt'[s] # "rotate"
        BY <3>2, <3>3, <1>i
      <4>2. \A s \in Threads : Pending(s)' =>
                rec'[s] \in 1 .. records' /\ rec'[s] \notin reported' \cup failed' /\ Unwritten(rec[s])'
        BY <3>2, <3>4, <3>5, <3>6 DEF Inv, InHand, Unwritten
      <4>3. \A q, s \in Threads : q # s /\ Pending(q)' /\ Pending(s)' => rec'[q] # rec'[s]
        BY <3>2, <3>5 DEF Inv, InHand
      <4> QED BY <4>1, <4>2, <4>3 DEF InHand
    <3>8. FailedIsNotWritten'
      BY <3>1, <3>2, <3>4 DEF Inv, FailedIsNotWritten, Written
    <3> QED BY <3>4, <3>7, <3>8 DEF Records
  <2>4. CASE Update_transfer(t)
    <3>1. CASE current # NoName
      BY <3>1, <2>4, RecordsTaken DEF Update_transfer, history
    <3>2. CASE current = NoName
      <4>1. UNCHANGED <<records, files, reported, failed, rec, attempt>>
        BY <3>2, <2>4 DEF Update_transfer, history
      <4>2. \A s \in Threads : pc'[s] = pc[s] \/ pc'[s] = "directories"
        BY <3>2, <2>4, <1>t DEF Update_transfer, Goto
      <4> QED BY <4>1, <4>2, <1>i, RecordsKept DEF Pending
    <3> QED BY <3>1, <3>2
  <2>5. CASE Update_directories(t)
    <3>1. UNCHANGED <<records, files, reported, failed, rec>>
      BY <2>5 DEF Update_directories, history, counted
    <3>2. /\ \A s \in Threads : s # t => pc'[s] = pc[s] /\ attempt'[s] = attempt[s]
          /\ pc'[t] \in {"setup_open", "close", "idle", "terminated"}
          /\ pc'[t] = "close" => attempt'[t] = "rotate"
      BY <2>5, <1>t DEF Update_directories, Goto
    <3> QED BY <3>1, <3>2, <1>i, RecordsKept DEF Pending
  <2> QED BY <1>4, <2>1, <2>2, <2>3, <2>4, <2>5 DEF WriteStep
<1>5. CASE UNCHANGED vars
  BY <1>5, <1>i, RecordsKept DEF vars, history, counted, Pending
<1> QED BY <1>1, <1>2, <1>3, <1>4, <1>5, Steps

LEMMA SetUpNext == Inv /\ [Next]_vars => SetUp'
<1> SUFFICES ASSUME Inv, [Next]_vars PROVE SetUp'
  OBVIOUS
<1> USE ThreadsAssumption, NamesAssumption
<1>t. pc \in [Threads -> Labels] /\ rec \in [Threads -> 0 .. records] /\ SetUp
  BY DEF Inv, TypeOK, Labels
<1>0. Writer \in Threads /\ Starter \in Threads /\ Maint \in Threads
  BY DEF Threads
<1>1. CASE Write_log
  BY <1>1, <1>0, <1>t DEF Write_log, BeginWrite, Goto, SetUp, target, history
<1>2. CASE Setup \/ Setup_open
  BY <1>2, <1>0, <1>t DEF Setup, Setup_open, Goto, SetUp, target, history
<1>3. CASE Setup_end
  <2>1. maintained' /\ (StorageDuration => interval') /\ current' # NoName
    BY <1>3, <1>t, Zenon DEF Setup_end, SetUp
  <2>2. /\ pc'[Starter] = "idle" /\ pc'[Maint] = pc[Maint] /\ pc'[Writer] = pc[Writer]
        /\ UNCHANGED <<rec, reported, failed>>
    BY <1>3, <1>0, <1>t DEF Setup_end, Goto, history
  <2> QED BY <2>1, <2>2, <1>t DEF SetUp
<1>4. CASE Maintenance \/ Maintenance_time \/ Maintenance_size \/ Maintenance_measure
  BY <1>4, <1>0, <1>t DEF Maintenance, Maintenance_time, Maintenance_size, Maintenance_measure, Decide, Goto, SetUp, target, history
<1>5. ASSUME NEW t \in Threads, WriteStep(t) PROVE SetUp'
  <2>0. t \in {Writer, Starter, Maint}
    BY DEF Threads
  <2>1. CASE Try(t) \/ Reopen_close(t) \/ Reopen_check(t) \/ Reopen_open(t)
    <3>1. UNCHANGED <<target, rec, history>>
      BY <2>1 DEF Try, Reopen_close, Reopen_check, Reopen_open
    <3>2. /\ pc[t] # "idle"
          /\ pc'[t] \notin {"setup_open", "setup_end", "time", "size", "measure", "update", "directories"}
          /\ \A s \in Threads : s # t => pc'[s] = pc[s]
      BY <2>1, <1>t DEF Try, Reopen_close, Reopen_check, Reopen_open, Goto
    <3> QED BY <3>1, <3>2, <2>0, <1>0, <1>t DEF SetUp, target, history
  <2>2. CASE Reopen_done(t) \/ Put_record(t)
    <3>1. UNCHANGED <<target, rec>> /\ reported \subseteq reported' /\ failed \subseteq failed'
      BY <2>2 DEF Reopen_done, Put_record, EndWrite
    <3>2. /\ pc[t] # "idle"
          /\ pc'[t] \notin {"setup_open", "setup_end", "time", "size", "measure", "update"}
          /\ pc'[t] = "directories" => t # Writer /\ rec[t] \in reported' \cup failed'
          /\ \A s \in Threads : s # t => pc'[s] = pc[s]
      BY <2>2, <1>t DEF Reopen_done, Put_record, EndWrite, Goto
    <3> QED BY <3>1, <3>2, <2>0, <1>0, <1>t DEF SetUp, target
  <2>3. CASE Update_transfer(t)
    <3>1. UNCHANGED <<target, history>> /\ pc[t] = "update"
      BY <2>3 DEF Update_transfer
    <3>2. /\ \A s \in Threads : s # t => pc'[s] = pc[s] /\ rec'[s] = rec[s]
          /\ pc'[t] = "try" \/ (current = NoName /\ pc'[t] = "directories")
      BY <2>3, <1>t DEF Update_transfer, BeginWrite, Goto
    <3> QED BY <3>1, <3>2, <2>0, <1>0, <1>t DEF SetUp, target, history
  <2>4. CASE Update_directories(t)
    <3>1. UNCHANGED <<interval, maintained, rec, history>> /\ pc[t] = "directories"
      BY <2>4 DEF Update_directories
    <3>2. /\ current' = current \/ current' # NoName
          /\ pc'[t] \in {"setup_open", "close", "idle", "terminated"}
          /\ pc'[t] = "setup_open" => current' # NoName
          /\ \A s \in Threads : s # t => pc'[s] = pc[s]
      BY <2>4, <1>t DEF Update_directories, Goto
    <3> QED BY <3>1, <3>2, <2>0, <1>0, <1>t DEF SetUp, history
  <2> QED BY <1>5, <2>1, <2>2, <2>3, <2>4 DEF WriteStep
<1>6. CASE UNCHANGED vars
  BY <1>6, <1>t DEF vars, target, history, SetUp
<1> QED BY <1>1, <1>2, <1>3, <1>4, <1>5, <1>6, Steps

LEMMA InvNext == Inv /\ [Next]_vars => Inv'
BY TypeNext, RecordsNext, SetUpNext DEF Inv, Records

(* Everything below follows from this invariant.                           *)
THEOREM FileTargetInvariant == Spec => []Inv
BY InvInit, InvNext, PTL DEF Spec

(* The stream, the name and both threads keep their types, whatever the    *)
(* file system refuses.                                                    *)
THEOREM TypeCorrect == Spec => []TypeOK
<1>1. Inv => TypeOK
  BY DEF Inv
<1> QED BY <1>1, FileTargetInvariant, PTL

(* The retry of Target::Write_log and the rotation beside it write no      *)
(* record twice.                                                           *)
THEOREM NothingTwice == Spec => []WrittenOnce
<1>1. Inv => WrittenOnce
  BY DEF Inv
<1> QED BY <1>1, FileTargetInvariant, PTL

(* What a target reports as failed it has not written, so that the         *)
(* fallback target repeats nothing.                                        *)
THEOREM FailuresAreTrue == Spec => []FailedIsNotWritten
<1>1. Inv => FailedIsNotWritten
  BY DEF Inv
<1> QED BY <1>1, FileTargetInvariant, PTL

(* Maintenance ends the program in the three ways named, and in no other.  *)
THEOREM MaintenanceEndsOnly == Spec => MaintenanceEnds
<1> DEFINE Ends ==
        pc[Maint] # "terminated" /\ pc'[Maint] = "terminated" =>
          \/ LogFrequency /\ ~StorageDuration
          \/ MaxFilesize /\ FilesVanish /\ pc[Maint] = "measure"
          \/ DirsFail /\ pc[Maint] = "directories" /\ rec[Maint] \in reported \cup failed
<1>1. ASSUME Inv, [Next]_vars PROVE Ends
  <2> SUFFICES ASSUME pc[Maint] # "terminated", pc'[Maint] = "terminated"
               PROVE  \/ LogFrequency /\ ~StorageDuration
                      \/ MaxFilesize /\ FilesVanish /\ pc[Maint] = "measure"
                      \/ DirsFail /\ pc[Maint] = "directories" /\ rec[Maint] \in reported \cup failed
    OBVIOUS
  <2> USE ThreadsAssumption
  <2>t. pc \in [Threads -> Labels] /\ Writer \in Threads /\ Starter \in Threads /\ Maint \in Threads
    BY <1>1 DEF Inv, TypeOK, Labels, Threads
  <2>1. Maintenance_time \/ Maintenance_measure \/ \E t \in Threads : Update_directories(t)
    <3>1. ~Write_log /\ ~Setup /\ ~Setup_open /\ ~Setup_end /\ ~Maintenance /\ ~Maintenance_size
      BY <2>t DEF Write_log, Setup, Setup_open, Setup_end, Maintenance, Maintenance_size, Decide, BeginWrite, Goto
    <3>2. ASSUME NEW t \in Threads
          PROVE  /\ ~Try(t) /\ ~Reopen_close(t) /\ ~Reopen_check(t) /\ ~Reopen_open(t)
                 /\ ~Reopen_done(t) /\ ~Put_record(t) /\ ~Update_transfer(t)
      BY <2>t DEF Try, Reopen_close, Reopen_check, Reopen_open, Reopen_done, Put_record, Update_transfer,
                  EndWrite, BeginWrite, Goto
    <3>3. ~UNCHANGED vars
      BY DEF vars
    <3> QED BY <1>1, <3>1, <3>2, <3>3, Steps DEF WriteStep
  <2>2. CASE Maintenance_time
    <3>1. pc[Maint] = "time" /\ ~interval
      BY <2>2, <2>t DEF Maintenance_time, Goto
    <3> QED BY <3>1, <1>1 DEF Inv, SetUp
  <2>3. CASE \E t \in Threads : Update_directories(t)
    <3>1. DirsFail /\ pc[Maint] = "directories"
      BY <2>3, <2>t DEF Update_directories, Goto
    <3> QED BY <3>1, <1>1 DEF Inv, SetUp
  <2>4. CASE Maintenance_measure
    <3>1. FilesVanish /\ pc[Maint] = "measure"
      BY <2>4, <2>t DEF Maintenance_measure, Decide, Goto
    <3> QED BY <3>1, <1>1 DEF Inv, SetUp
  <2> QED BY <2>1, <2>2, <2>3, <2>4
<1>2. Inv /\ [Next]_vars => [Ends]_vars
  BY <1>1
<1> QED BY <1>2, FileTargetInvariant, PTL DEF Spec, MaintenanceEnds

-----------------------------------------------------------------------------
(* Where the stream is, and what happens on a target set up once.          *)

(* A target has no name before its first Setup, and no file is opened      *)
(* without one: the first Setup finds the stream closed, and no            *)
(* maintenance.                                                            *)
FirstSetup ==
    /\ current = NoName => ~isOpen
    /\ setups = 0 => current = NoName /\ pc[Starter] = "idle"
    /\ setups <= 1 =>
          /\ pc[Starter] \in {"update", "directories"} => current = NoName
          /\ pc[Starter] \in {"idle", "update", "directories", "setup_open", "setup_end"}
          /\ pc[Starter] = "setup_open" => ~isOpen /\ ~maintained
          /\ pc[Starter] # "idle" => pc[Writer] = "idle"

(* The stream is on another file only between the new name and the close.  *)
StreamFollows ==
    setups <= 1 /\ isOpen /\ on # current => pc[Maint] = "close" /\ attempt[Maint] = "rotate"

(* Until the first rotation the maintenance thread leaves the stream alone, *)
(* and a stream that is open has no error.                                 *)
WriterAlone ==
    rotations = 0 =>
      /\ pc[Maint] \in {"idle", "time", "size", "measure", "terminated"}
      /\ setups <= 1 =>
            /\ isOpen => good \/ WritesFail
            /\ pc[Writer] = "put" => isOpen
            /\ pc[Writer] \in {"check", "open"} => ~isOpen

StreamInv == Inv /\ FirstSetup /\ StreamFollows /\ WriterAlone /\ ReportedUnlessDisturbed

LEMMA StreamInit == Init => StreamInv
<1> SUFFICES ASSUME Init PROVE StreamInv
  OBVIOUS
<1>1. Inv
  BY InvInit
<1>2. Writer \in Threads /\ Starter \in Threads /\ Maint \in Threads
  BY DEF Threads
<1>3. FirstSetup /\ StreamFollows /\ WriterAlone
  BY <1>2 DEF Init, FirstSetup, StreamFollows, WriterAlone, Pending
<1>4. ReportedUnlessDisturbed
  BY DEF Init, ReportedUnlessDisturbed, ReportedIsWritten
<1> QED BY <1>1, <1>3, <1>4 DEF StreamInv

(* A step of one thread leaves the other where it is.                      *)
LEMMA OthersStay ==
    ASSUME Inv, NEW t \in Threads, WriteStep(t), NEW s \in Threads, s # t
    PROVE  pc'[s] = pc[s] /\ attempt'[s] = attempt[s] /\ rec'[s] = rec[s]
BY DEF Inv, TypeOK, WriteStep, Try, Reopen_close, Reopen_check, Reopen_open, Reopen_done, Put_record,
       Update_transfer, Update_directories, EndWrite, BeginWrite, Goto

(* Set-ups and rotations are only added, by Setup and by Decide.           *)
LEMMA CountsGrow ==
    ASSUME Inv, [Next]_vars
    PROVE  /\ setups \in Nat /\ rotations \in Nat
           /\ setups' = setups \/ (Setup /\ setups' = setups + 1)
           /\ rotations' = rotations \/ rotations' = rotations + 1
<1>1. setups \in Nat /\ rotations \in Nat
  BY DEF Inv, TypeOK
<1>2. CASE Write_log \/ Setup \/ Setup_open \/ Setup_end
  BY <1>1, <1>2 DEF Write_log, Setup, Setup_open, Setup_end, counted
<1>3. CASE Maintenance \/ Maintenance_time \/ Maintenance_size \/ Maintenance_measure
  BY <1>1, <1>3 DEF Maintenance, Maintenance_time, Maintenance_size, Maintenance_measure, Decide, counted
<1>4. ASSUME NEW t \in Threads, WriteStep(t) PROVE setups' = setups /\ rotations' = rotations
  BY <1>4 DEF WriteStep, Try, Reopen_close, Reopen_check, Reopen_open, Reopen_done, Put_record,
              Update_transfer, Update_directories, EndWrite, BeginWrite, Goto, counted
<1>5. CASE UNCHANGED vars
  BY <1>1, <1>5 DEF vars, counted
<1> QED BY <1>1, <1>2, <1>3, <1>4, <1>5, Steps

(* What a step of either thread does to the stream and the name.           *)
LEMMA StreamSteps ==
    ASSUME NEW t \in Threads, WriteStep(t)
    PROVE  \/ /\ Try(t) \/ Reopen_check(t) \/ Reopen_done(t) \/ Update_transfer(t)
              /\ UNCHANGED <<stream, target>>
           \/ Reopen_close(t) /\ ~isOpen' /\ UNCHANGED target
           \/ /\ Reopen_open(t) /\ UNCHANGED target
              /\ UNCHANGED <<isOpen, on>> \/ (current # NoName /\ isOpen' /\ on' = current /\ good')
           \/ /\ Put_record(t) /\ UNCHANGED <<isOpen, on, target>>
              /\ good' = good \/ ~isOpen \/ ~good \/ WritesFail
           \/ Update_directories(t) /\ UNCHANGED <<stream, interval, maintained>>
BY DEF WriteStep, Try, Reopen_close, Reopen_check, Reopen_open, Reopen_done, Put_record,
       Update_transfer, Update_directories, Close, Open, Put, stream, target

LEMMA FirstSetupNext == StreamInv /\ [Next]_vars => FirstSetup'
<1> SUFFICES ASSUME StreamInv, [Next]_vars PROVE FirstSetup'
  OBVIOUS
<1> USE ThreadsAssumption, NamesAssumption DEF FirstSetup
<1>t. /\ pc \in [Threads -> Labels] /\ attempt \in [Threads -> Attempts]
      /\ Writer \in Threads /\ Starter \in Threads /\ Maint \in Threads
      /\ setups \in Nat /\ isOpen \in BOOLEAN
  BY DEF StreamInv, Inv, TypeOK, Labels, Attempts, Threads
<1>i. FirstSetup /\ SetUp
  BY DEF StreamInv, Inv
<1>1. CASE Write_log
  <2>1. /\ pc'[Starter] = pc[Starter] /\ setups' = setups /\ UNCHANGED <<stream, target>>
        /\ pc[Starter] # "idle" => setups > 1
    BY <1>1, <1>t DEF Write_log, BeginWrite, Goto
  <2> QED BY <2>1, <1>t, <1>i DEF stream, target
<1>2. CASE Setup
  <2>1. /\ pc'[Starter] = "update" /\ pc'[Writer] = pc[Writer] /\ setups' = setups + 1
        /\ pc[Writer] # "idle" => setups > 0
        /\ UNCHANGED <<stream, target>>
    BY <1>2, <1>t DEF Setup, Goto
  <2>2. setups' # 0 /\ (setups' <= 1 => setups = 0)
    BY <2>1, <1>t
  <2> QED BY <2>1, <2>2, <1>t, <1>i DEF stream, target
<1>3. CASE Setup_open
  BY <1>3, <1>t, <1>i DEF Setup_open, Goto, Open, target, counted
<1>4. CASE Setup_end
  BY <1>4, <1>t, <1>i DEF Setup_end, Goto, stream, counted
<1>5. CASE Maintenance \/ Maintenance_time \/ Maintenance_size \/ Maintenance_measure
  BY <1>5, <1>t, <1>i DEF Maintenance, Maintenance_time, Maintenance_size, Maintenance_measure, Decide, Goto,
                          stream, target, counted
<1>6. ASSUME NEW t \in Threads, WriteStep(t) PROVE FirstSetup'
  <2>0. setups' = setups
    BY <1>6 DEF WriteStep, Try, Reopen_close, Reopen_check, Reopen_open, Reopen_done, Put_record,
                Update_transfer, Update_directories, BeginWrite, counted
  <2>1. /\ pc[t] # "idle"
        /\ Update_directories(t) \/ UNCHANGED target
        /\ isOpen' => isOpen \/ current' # NoName
    <3>1. pc[t] # "idle"
      BY <1>6 DEF WriteStep, Try, Reopen_close, Reopen_check, Reopen_open, Reopen_done, Put_record,
                  Update_transfer, Update_directories
    <3> QED BY <1>6, <3>1, StreamSteps DEF stream, target, Reopen_close, Reopen_open, Update_directories
  <2>2. CASE t = Starter
    <3>1. CASE Update_transfer(t)
      BY <3>1, <2>0, <2>1, <2>2, <1>t, <1>i DEF Update_transfer, BeginWrite, Goto, stream, target
    <3>2. CASE Update_directories(t)
      BY <3>2, <2>0, <2>2, <1>t, <1>i DEF Update_directories, Goto, stream, counted, SetUp
    <3>3. CASE ~Update_transfer(t) /\ ~Update_directories(t)
      <4>1. pc[Starter] \in {"try", "close", "check", "open", "reopened", "put"}
        BY <3>3, <2>2, <1>6 DEF WriteStep, Try, Reopen_close, Reopen_check, Reopen_open, Reopen_done, Put_record
      <4>2. ~(setups <= 1)
        BY <4>1, <1>i
      <4>3. setups # 0
        BY <4>2, <1>t
      <4> QED BY <4>2, <4>3, <2>0, <2>1, <3>3, <1>i DEF target
    <3> QED BY <3>1, <3>2, <3>3
  <2>3. CASE t = Writer
    <3>1. pc'[Starter] = pc[Starter]
      BY <1>6, <1>t, <2>3, OthersStay DEF StreamInv
    <3>2. UNCHANGED target
      BY <2>1, <2>3, <1>i DEF Update_directories, SetUp
    <3>3. setups <= 1 => pc[Starter] = "idle"
      BY <2>1, <2>3, <1>i
    <3> QED BY <2>0, <2>1, <3>1, <3>2, <3>3, <1>t, <1>i DEF target
  <2>4. CASE t = Maint
    <3>1. pc'[Starter] = pc[Starter] /\ pc'[Writer] = pc[Writer]
      BY <1>6, <1>t, <2>4, OthersStay DEF StreamInv
    <3>2. maintained /\ current # NoName
      BY <2>1, <2>4, <1>i DEF SetUp
    <3>3. current' # NoName /\ maintained' = maintained
      BY <1>6, <3>2, StreamSteps DEF Update_directories, target
    <3> QED BY <2>0, <3>1, <3>2, <3>3, <1>t, <1>i
  <2> QED BY <2>2, <2>3, <2>4 DEF Threads
<1>7. CASE UNCHANGED vars
  BY <1>7, <1>i DEF vars, stream, target, counted
<1> QED BY <1>1, <1>2, <1>3, <1>4, <1>5, <1>6, <1>7, Steps

LEMMA FollowsNext == StreamInv /\ [Next]_vars => StreamFollows'
<1> SUFFICES ASSUME StreamInv, [Next]_vars, setups' <= 1, isOpen', on' # current'
             PROVE  pc'[Maint] = "close" /\ attempt'[Maint] = "rotate"
  BY DEF StreamFollows
<1> USE ThreadsAssumption, NamesAssumption
<1>t. /\ pc \in [Threads -> Labels] /\ due \in BOOLEAN /\ attempt \in [Threads -> Attempts]
      /\ Writer \in Threads /\ Starter \in Threads /\ Maint \in Threads
  BY DEF StreamInv, Inv, TypeOK, Labels, Attempts, Threads
<1>i. StreamFollows /\ FirstSetup /\ SetUp
  BY DEF StreamInv, Inv
<1>0. setups <= 1
  BY CountsGrow DEF StreamInv
<1>1. CASE Write_log \/ Setup \/ Setup_open \/ Setup_end
  BY <1>0, <1>1, <1>t, <1>i DEF Write_log, Setup, Setup_open, Setup_end, Open, BeginWrite, Goto, stream, target,
                                StreamFollows
<1>2. CASE Maintenance \/ Maintenance_time \/ Maintenance_size \/ Maintenance_measure
  BY <1>0, <1>2, <1>t, <1>i DEF Maintenance, Maintenance_time, Maintenance_size, Maintenance_measure, Decide, Goto, stream, target, StreamFollows
<1>3. ASSUME NEW t \in Threads, WriteStep(t) PROVE pc'[Maint] = "close" /\ attempt'[Maint] = "rotate"
  <2>1. CASE t \in {Writer, Starter}
    <3>1. pc'[Maint] = pc[Maint] /\ attempt'[Maint] = attempt[Maint]
      BY <1>3, <1>t, <2>1, OthersStay DEF StreamInv
    <3>2. isOpen /\ on # current
      <4>1. CASE Update_directories(t)
        BY <4>1, <2>1, <1>0, <1>i DEF Update_directories, stream, FirstSetup, SetUp
      <4>2. CASE ~Update_directories(t)
        BY <4>2, <1>3, StreamSteps DEF stream, target
      <4> QED BY <4>1, <4>2
    <3> QED BY <3>1, <3>2, <1>0, <1>i DEF StreamFollows
  <2>2. CASE t = Maint
    <3>1. CASE Update_directories(t)
      <4>1. current' = current => pc[Maint] # "close" /\ isOpen /\ on # current
        BY <3>1, <2>2 DEF Update_directories, stream
      <4> QED BY <3>1, <4>1, <2>2, <1>0, <1>t, <1>i DEF Update_directories, Goto, StreamFollows
    <3>2. CASE ~Update_directories(t)
      <4>1. isOpen /\ on # current /\ ~Reopen_close(t)
        BY <3>2, <1>3, StreamSteps DEF stream, target, Reopen_close, Close
      <4>2. pc[Maint] = "close"
        BY <4>1, <1>0, <1>i DEF StreamFollows
      <4> QED BY <3>2, <4>1, <4>2, <2>2, <1>3 DEF WriteStep, Try, Reopen_check, Reopen_open, Reopen_done,
                                                  Put_record, Update_transfer
    <3> QED BY <3>1, <3>2
  <2> QED BY <1>3, <2>1, <2>2 DEF Threads
<1>4. CASE UNCHANGED vars
  BY <1>4, <1>0, <1>i DEF vars, stream, target, StreamFollows
<1> QED BY <1>1, <1>2, <1>3, <1>4, Steps

LEMMA AloneNext == StreamInv /\ [Next]_vars => WriterAlone'
<1> SUFFICES ASSUME StreamInv, [Next]_vars, rotations' = 0 PROVE WriterAlone'
  BY DEF WriterAlone
<1> USE ThreadsAssumption DEF WriterAlone
<1>t. /\ pc \in [Threads -> Labels] /\ due \in BOOLEAN /\ attempt \in [Threads -> Attempts]
      /\ Writer \in Threads /\ Starter \in Threads /\ Maint \in Threads
      /\ isOpen \in BOOLEAN /\ good \in BOOLEAN
  BY DEF StreamInv, Inv, TypeOK, Labels, Attempts, Threads
<1>0. rotations = 0 /\ (setups' <= 1 => setups <= 1)
  BY CountsGrow DEF StreamInv
<1>i. WriterAlone /\ FirstSetup /\ SetUp
  BY DEF StreamInv, Inv
<1>1. CASE Write_log \/ Setup \/ Setup_end
  BY <1>0, <1>1, <1>t, <1>i DEF Write_log, Setup, Setup_end, BeginWrite, Goto, stream
<1>2. CASE Setup_open
  BY <1>0, <1>2, <1>t, <1>i DEF Setup_open, Open, Goto, FirstSetup
<1>3. CASE Maintenance \/ Maintenance_time
  BY <1>0, <1>3, <1>t, <1>i DEF Maintenance, Maintenance_time, Goto, stream
<1>4. CASE Maintenance_size \/ Maintenance_measure
  <2>1. UNCHANGED stream /\ pc'[Writer] = pc[Writer] /\ setups' = setups
    BY <1>4, <1>t DEF Maintenance_size, Maintenance_measure, Decide, Goto
  <2>2. pc'[Maint] \in {"idle", "measure", "terminated"}
    <3>1. rotations \in Nat /\ rotations' # rotations + 1
      BY <1>0 DEF StreamInv, Inv, TypeOK
    <3> QED BY <3>1, <1>4, <1>t DEF Maintenance_size, Maintenance_measure, Decide, Goto
  <2> QED BY <2>1, <2>2, <1>0, <1>i DEF stream
<1>5. ASSUME NEW t \in Threads, WriteStep(t) PROVE WriterAlone'
  <2>0. t # Maint /\ setups' = setups
    BY <1>0, <1>5, <1>i DEF Threads, WriteStep, Try, Reopen_close, Reopen_check, Reopen_open, Reopen_done,
                            Put_record, Update_transfer, Update_directories, BeginWrite, counted
  <2>2. pc'[Maint] = pc[Maint]
    BY <1>5, <1>t, <2>0, OthersStay DEF StreamInv
  <2> SUFFICES ASSUME setups' <= 1
               PROVE  /\ isOpen' => good' \/ WritesFail
                      /\ pc'[Writer] = "put" => isOpen'
                      /\ pc'[Writer] \in {"check", "open"} => ~isOpen'
    BY <1>0, <1>i, <2>2
  <2>8. CASE t = Starter
    <3>1. pc'[Writer] = pc[Writer]
      BY <1>5, <1>t, <2>8, OthersStay DEF StreamInv
    <3>2. pc[Starter] \in {"idle", "update", "directories", "setup_open", "setup_end"}
      BY <2>0, <1>i DEF FirstSetup
    <3>3. UNCHANGED stream
      BY <1>5, <2>8, <3>2 DEF WriteStep, Try, Reopen_close, Reopen_check, Reopen_open, Reopen_done,
                              Put_record, Update_transfer, Update_directories
    <3>4. /\ isOpen => good \/ WritesFail
          /\ pc[Writer] = "put" => isOpen
          /\ pc[Writer] \in {"check", "open"} => ~isOpen
      BY <2>0, <1>0, <1>i
    <3>5. isOpen' => good' \/ WritesFail
      BY <3>3, <3>4, Zenon DEF stream
    <3> QED BY <3>1, <3>3, <3>4, <3>5 DEF stream
  <2> SUFFICES ASSUME t = Writer
               PROVE  /\ isOpen' => good' \/ WritesFail
                      /\ pc'[Writer] = "put" => isOpen'
                      /\ pc'[Writer] \in {"check", "open"} => ~isOpen'
    BY <2>0, <2>8 DEF Threads
  <2>1. t = Writer
    OBVIOUS
  <2>3. CASE Try(t) \/ Reopen_close(t) \/ Reopen_check(t) \/ Reopen_open(t)
    BY <1>0, <1>t, <1>i, <2>1, <2>3 DEF Try, Reopen_close, Reopen_check, Reopen_open, Close, Open, Goto, stream
  <2>4. CASE Reopen_done(t)
    BY <1>0, <1>t, <1>i, <2>1, <2>4 DEF Reopen_done, EndWrite, Goto, stream
  <2>5. CASE Put_record(t)
    <3>1. isOpen' = isOpen /\ (good' = good \/ ~isOpen \/ ~good \/ WritesFail)
      BY <2>5 DEF Put_record, Put, stream
    <3>2. pc'[Writer] \in {"idle", "directories"}
      BY <2>1, <2>5, <1>t DEF Put_record, EndWrite, Goto
    <3>3. (isOpen => good \/ WritesFail) /\ isOpen \in BOOLEAN
      BY <1>0, <1>t, <1>i
    <3>4. isOpen' => good' \/ WritesFail
      BY <3>1, <3>3, Zenon
    <3> QED BY <3>2, <3>4
  <2>6. CASE Update_transfer(t)
    BY <1>0, <1>t, <1>i, <2>1, <2>6 DEF Update_transfer, BeginWrite, Goto, stream
  <2>7. CASE Update_directories(t)
    BY <1>0, <1>t, <1>i, <2>1, <2>7 DEF Update_directories, SetUp, Goto, stream
  <2> QED BY <1>5, <2>3, <2>4, <2>5, <2>6, <2>7 DEF WriteStep
<1>6. CASE UNCHANGED vars
  BY <1>0, <1>6, <1>i DEF vars, stream
<1> QED BY <1>1, <1>2, <1>3, <1>4, <1>5, <1>6, Steps

(* What is written stays written.                                          *)
LEMMA WrittenKept ==
    ASSUME Inv, [Next]_vars
    PROVE  Written \subseteq Written'
<1>1. records \in Nat /\ records' \in Nat /\ records <= records'
  <2>1. records \in Nat
    BY DEF Inv, TypeOK
  <2>2. records' = records \/ records' = records + 1
    <3>1. CASE Write_log \/ Setup \/ Setup_open \/ Setup_end
      BY <3>1 DEF Write_log, Setup, Setup_open, Setup_end, BeginWrite, counted
    <3>2. CASE Maintenance \/ Maintenance_time \/ Maintenance_size \/ Maintenance_measure
      BY <3>2 DEF Maintenance, Maintenance_time, Maintenance_size, Maintenance_measure, Decide, counted
    <3>3. ASSUME NEW t \in Threads, WriteStep(t) PROVE records' = records \/ records' = records + 1
      BY <3>3 DEF WriteStep, Try, Reopen_close, Reopen_check, Reopen_open, Reopen_done, Put_record,
                  Update_transfer, Update_directories, BeginWrite, counted
    <3>4. CASE UNCHANGED vars
      BY <3>4 DEF vars, counted
    <3> QED BY <3>1, <3>2, <3>3, <3>4, Steps
  <2> QED BY <2>1, <2>2
<1>2. files' = files \/ \E t \in Threads : Put_record(t)
  BY Steps DEF Write_log, Setup, Setup_open, Setup_end, Maintenance, Maintenance_time, Maintenance_size, Maintenance_measure, Decide, WriteStep,
               Try, Reopen_close, Reopen_check, Reopen_open, Reopen_done, Update_transfer, Update_directories, vars
<1>3. \A n \in Names : \A q : InFile(q, n) => InFile(q, n)'
  <2>1. CASE files' = files
    BY <2>1 DEF InFile
  <2>2. ASSUME NEW t \in Threads, Put_record(t), files' # files PROVE \A n \in Names : \A q : InFile(q, n) => InFile(q, n)'
    <3>1. on \in Names /\ files' = [files EXCEPT ![on] = Append(@, rec[t])]
      BY <2>2 DEF Put_record, Put, Inv, TypeOK
    <3>2. files \in [Names -> Seq(1 .. records)]
      BY DEF Inv, TypeOK
    <3>3. \A n \in Names : n # on => files'[n] = files[n]
      BY <3>1, <3>2
    <3>4. /\ files[on] \in Seq(1 .. records) /\ Len(files[on]) \in Nat
          /\ files'[on] = Append(files[on], rec[t])
      BY <3>1, <3>2
    <3>5. \A i \in DOMAIN files[on] : i \in DOMAIN files'[on] /\ files'[on][i] = files[on][i]
      <4>1. DOMAIN files[on] = 1 .. Len(files[on])
        BY <3>4
      <4> QED BY <3>4, <4>1
    <3> QED BY <3>3, <3>5 DEF InFile
  <2> QED BY <1>2, <2>1, <2>2
<1> QED BY <1>1, <1>3 DEF Written

LEMMA ReportedNext == StreamInv /\ [Next]_vars => ReportedUnlessDisturbed'
<1> SUFFICES ASSUME StreamInv, [Next]_vars, ~WritesFail, setups' <= 1, rotations' = 0
             PROVE  reported' \subseteq Written'
  BY DEF ReportedUnlessDisturbed, ReportedIsWritten
<1>0. rotations = 0 /\ setups <= 1
  BY CountsGrow DEF StreamInv
<1>1. Written \subseteq Written'
  BY WrittenKept DEF StreamInv
<1>2. reported \subseteq Written
  BY <1>0 DEF StreamInv, ReportedUnlessDisturbed, ReportedIsWritten
<1>3. reported' = reported \/ \E t \in Threads : Put_record(t)
  BY Steps DEF Write_log, Setup, Setup_open, Setup_end, Maintenance, Maintenance_time, Maintenance_size, Maintenance_measure, Decide, WriteStep,
               Try, Reopen_close, Reopen_check, Reopen_open, Reopen_done, Update_transfer, Update_directories,
               vars, history
<1>4. ASSUME NEW t \in Threads, Put_record(t) PROVE reported' \subseteq Written'
  <2>1. t = Writer /\ pc[Writer] = "put"
    BY <1>0, <1>4 DEF StreamInv, FirstSetup, WriterAlone, Threads, Put_record
  <2>2. isOpen /\ good
    BY <1>0, <2>1 DEF StreamInv, WriterAlone
  <2>3. on \in Names /\ files' = [files EXCEPT ![on] = Append(@, rec[t])] /\ records' = records
    BY <1>4, <2>2 DEF Put_record, Put, StreamInv, Inv, TypeOK, counted
  <2>4. rec[t] \in 1 .. records
    BY <1>4 DEF Put_record, StreamInv, Inv, InHand, Pending
  <2>5. files \in [Names -> Seq(1 .. records)]
    BY DEF StreamInv, Inv, TypeOK
  <2>6. files'[on] = Append(files[on], rec[t]) /\ files[on] \in Seq(1 .. records)
    BY <2>3, <2>5
  <2>7. Len(files[on]) + 1 \in DOMAIN files'[on] /\ files'[on][Len(files[on]) + 1] = rec[t]
    BY <2>4, <2>6
  <2>8. rec[t] \in Written'
    BY <2>3, <2>4, <2>7 DEF Written, InFile
  <2>9. reported' = reported \cup {rec[t]}
    BY <1>4 DEF Put_record
  <2> QED BY <1>1, <1>2, <2>8, <2>9
<1> QED BY <1>1, <1>2, <1>3, <1>4

LEMMA StreamNext == StreamInv /\ [Next]_vars => StreamInv'
BY InvNext, FirstSetupNext, FollowsNext, AloneNext, ReportedNext DEF StreamInv

LEMMA StreamInvariant == Spec => []StreamInv
BY StreamInit, StreamNext, PTL DEF Spec

(* While nobody is at work on a target set up once, an open stream is on   *)
(* the current file, whatever writes and rotations did to it side by side. *)
THEOREM NothingToAnOldFile == Spec => []StreamOnCurrent
<1>1. StreamInv => StreamOnCurrent
  BY DEF StreamInv, StreamOnCurrent, StreamFollows, Threads
<1> QED BY <1>1, StreamInvariant, PTL

(* A target set up once and never rotated, on a disk that takes what is    *)
(* written, reports no record as written that is in no file.               *)
THEOREM ReportsAreTrue == Spec => []ReportedUnlessDisturbed
<1>1. StreamInv => ReportedUnlessDisturbed
  BY DEF StreamInv
<1> QED BY <1>1, StreamInvariant, PTL

=============================================================================
