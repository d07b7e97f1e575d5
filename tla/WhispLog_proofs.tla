--------------------------- MODULE WhispLog_proofs ---------------------------
(***************************************************************************)
(* Proofs about WhispLog, for any threads, levels, sizes, numbers of lines *)
(* and seconds: no line is lost, repeated or overtaken (OrderInv), what    *)
(* was logged before log_uninit is printed when it returns (DrainInv), and *)
(* every printed line is in the files once (FileInv).                      *)
(***************************************************************************)
EXTENDS WhispLog, TLAPS

\* The line between the list and the file.
Held == IF pc = "write" THEN 1 ELSE 0

\* OrderInv line by line: the printed lines are 1, 2, ..., then comes the line the
\* writer holds, then those in the list.
LineInv ==
    /\ issued \in Nat /\ out_line \in Nat
    /\ printed \in Seq(Nat) /\ write_wating_lists_ \in Seq(Nat)
    /\ Len(printed) + Held + Len(write_wating_lists_) = issued
    /\ \A i \in 1 .. Len(printed) : printed[i] = i
    /\ pc = "write" => out_line = Len(printed) + 1
    /\ \A i \in 1 .. Len(write_wating_lists_) : write_wating_lists_[i] = Len(printed) + Held + i

\* The writer that ended saw exit_flag_ and an empty list, or gave up; exit_flag_ is set
\* after the lines of `before' were counted.
ExitInv ==
    /\ before \in Nat /\ before <= issued
    /\ exit_flag_ => upc \notin {"no", "exit"}
    /\ pc = "ended" /\ ~died => upc # "no" /\ before <= Len(printed)
    /\ upc = "done" => pc = "ended"

\* The lines in the files are printed ones or FATAL ones (0), no printed one is there
\* twice, and each is there.
Once ==
    /\ \A s \in 0 .. MaxTime : \A k \in 1 .. Len(files[s]) : files[s][k] \in 0 .. Len(printed)
    /\ \A s, r \in 0 .. MaxTime : \A k \in 1 .. Len(files[s]), j \in 1 .. Len(files[r]) :
           files[s][k] = files[r][j] /\ files[s][k] # 0 => s = r /\ k = j
    /\ \A i \in 1 .. Len(printed) : \E s \in 0 .. MaxTime : \E k \in 1 .. Len(files[s]) : files[s][k] = i

DiskInv ==
    /\ now \in 0 .. MaxTime /\ name \in 0 .. MaxTime
    /\ files \in [0 .. MaxTime -> Seq(Nat)]
    /\ Named /\ ~clobbered => Once

LogInv == LineInv /\ ExitInv /\ DiskInv

LEMMA InitLog == Init => LogInv
<1> SUFFICES ASSUME Init PROVE LogInv OBVIOUS
<1>1. LineInv BY DEF Init, LineInv, Held
<1>2. ExitInv BY DEF Init, ExitInv
<1>3. DiskInv
  <2>1. 0 \in 0 .. MaxTime BY LogAssumption
  <2>2. files \in [0 .. MaxTime -> Seq(Nat)] BY DEF Init
  <2>3. \A s \in 0 .. MaxTime : Len(files[s]) = 0 BY DEF Init
  <2>4. Len(printed) = 0 BY DEF Init
  <2>5. Once BY <2>3, <2>4 DEF Once
  <2> QED BY <2>1, <2>2, <2>5 DEF Init, DiskInv
<1> QED BY <1>1, <1>2, <1>3 DEF LogInv
-----------------------------------------------------------------------------
(***************************************************************************)
(* The lines.                                                              *)
(***************************************************************************)
lineVars == <<issued, out_line, printed, write_wating_lists_>>

LEMMA LineKept ==
  ASSUME LineInv, UNCHANGED lineVars, pc' = "write" <=> pc = "write"
  PROVE  LineInv'
<1>1. Held' = Held BY DEF Held
<1> QED BY <1>1 DEF LineInv, lineVars

LEMMA NotifyWrites == \A at : /\ notify_one(at) = "write" <=> at = "write"
                              /\ notify_one(at) = "ended" <=> at = "ended"
BY DEF notify_one

LEMMA OutputLine ==
  ASSUME LineInv, NEW t \in Thread, NEW l \in Level, log_output(t, l)
  PROVE  LineInv'
<1> DEFINE q == write_wating_lists_
           n == Len(q)
           k == Len(printed)
<1>1. pc # "write" /\ pc' # "write" BY NotifyWrites DEF log_output, Locked
<1>2. issued' = issued + 1 /\ q' = Append(q, issued + 1) /\ UNCHANGED <<out_line, printed>>
  BY DEF log_output, outVars
<1>3. Held = 0 /\ Held' = 0 BY <1>1 DEF Held
<1>4. /\ issued \in Nat /\ out_line \in Nat /\ printed \in Seq(Nat) /\ q \in Seq(Nat)
      /\ k \in Nat /\ n \in Nat /\ k + n = issued
      /\ \A i \in 1 .. k : printed[i] = i
      /\ \A i \in 1 .. n : q[i] = k + i
  BY <1>3 DEF LineInv
<1>5. /\ q' \in Seq(Nat) /\ Len(q') = n + 1 /\ q'[n + 1] = issued + 1
      /\ \A i \in 1 .. n : q'[i] = q[i]
  BY <1>2, <1>4
<1>6. Len(printed') = k BY <1>2
<1> HIDE DEF n, k
<1>7. ASSUME NEW i \in 1 .. n + 1 PROVE q'[i] = k + i
  <2>1. CASE i = n + 1 BY <1>4, <1>5, <2>1
  <2>2. CASE i \in 1 .. n BY <1>4, <1>5, <2>2
  <2> QED BY <1>4, <2>1, <2>2
<1>8. k + 0 + (n + 1) = issued + 1 BY <1>4
<1> QED BY <1>1, <1>2, <1>3, <1>4, <1>5, <1>6, <1>7, <1>8 DEF LineInv

LEMMA TakenLine ==
  ASSUME LineInv, pc = "check", pc' = "write", write_wating_lists_ # <<>>,
         out_line' = Front(write_wating_lists_),
         write_wating_lists_' = Tail(write_wating_lists_),
         UNCHANGED <<issued, printed>>
  PROVE  LineInv'
<1> DEFINE q == write_wating_lists_
           n == Len(q)
           k == Len(printed)
<1>3. Held = 0 /\ Held' = 1 BY DEF Held
<1>4. /\ issued \in Nat /\ printed \in Seq(Nat) /\ q \in Seq(Nat)
      /\ k \in Nat /\ n \in Nat /\ n # 0 /\ k + n = issued
      /\ \A i \in 1 .. k : printed[i] = i
      /\ \A i \in 1 .. n : q[i] = k + i
  BY <1>3 DEF LineInv
<1>5. q' \in Seq(Nat) /\ Len(q') = n - 1 /\ out_line' = q[1] /\ \A i \in 1 .. n - 1 : q'[i] = q[i + 1]
  BY <1>4 DEF Front
<1>6. Len(printed') = k /\ printed' = printed /\ issued' = issued OBVIOUS
<1> HIDE DEF n, k
<1>7. out_line' = k + 1 BY <1>4, <1>5
<1>8. \A i \in 1 .. n - 1 : q'[i] = k + 1 + i BY <1>4, <1>5
<1>9. k + 1 + (n - 1) = issued /\ k + 1 \in Nat BY <1>4
<1> QED BY <1>3, <1>4, <1>5, <1>6, <1>7, <1>8, <1>9, Zenon DEF LineInv

LEMMA PrintedLine ==
  ASSUME LineInv, pc = "write", pc' = "top", printed' = Append(printed, out_line),
         UNCHANGED <<issued, out_line, write_wating_lists_>>
  PROVE  LineInv' /\ Len(printed') = Len(printed) + 1 /\ out_line = Len(printed) + 1
<1> DEFINE q == write_wating_lists_
           n == Len(q)
           k == Len(printed)
<1>3. Held = 1 /\ Held' = 0 BY DEF Held
<1>4. /\ issued \in Nat /\ printed \in Seq(Nat) /\ q \in Seq(Nat) /\ out_line \in Nat
      /\ k \in Nat /\ n \in Nat /\ k + 1 + n = issued /\ out_line = k + 1
      /\ \A i \in 1 .. k : printed[i] = i
      /\ \A i \in 1 .. n : q[i] = k + 1 + i
  BY <1>3 DEF LineInv
<1>5. /\ printed' \in Seq(Nat) /\ Len(printed') = k + 1 /\ printed'[k + 1] = k + 1
      /\ \A i \in 1 .. k : printed'[i] = printed[i]
  BY <1>4
<1>6. q' = q /\ Len(q') = n /\ out_line' = out_line /\ issued' = issued OBVIOUS
<1> HIDE DEF n, k
<1>7. \A i \in 1 .. k + 1 : printed'[i] = i BY <1>4, <1>5
<1>8. \A i \in 1 .. n : q'[i] = (k + 1) + 0 + i BY <1>4, <1>6
<1>9. (k + 1) + 0 + n = issued BY <1>4
<1>10. LineInv' BY <1>3, <1>4, <1>5, <1>6, <1>7, <1>8, <1>9 DEF LineInv
<1> QED BY <1>4, <1>5, <1>10 DEF k
-----------------------------------------------------------------------------
(***************************************************************************)
(* The end.                                                                *)
(***************************************************************************)
LEMMA ExitKept ==
  ASSUME ExitInv, issued \in Nat, issued' \in {issued, issued + 1},
         Len(printed) \in Nat, Len(printed') \in {Len(printed), Len(printed) + 1},
         UNCHANGED <<before, exit_flag_, upc, died>>, pc' = "ended" <=> pc = "ended"
  PROVE  ExitInv'
<1>1. before \in Nat /\ before <= issued' BY DEF ExitInv
<1>2. before <= Len(printed) => before <= Len(printed') BY <1>1
<1> QED BY <1>1, <1>2, Zenon DEF ExitInv

LEMMA GivenUp ==
  ASSUME ExitInv, pc # "ended", died', UNCHANGED <<before, exit_flag_, upc, issued, printed>>
  PROVE  ExitInv'
BY Zenon DEF ExitInv

LEMMA Drained ==
  ASSUME LineInv, ExitInv, pc = "check", MayExit, pc' = "ended",
         UNCHANGED <<before, exit_flag_, upc, died, issued, printed>>
  PROVE  ExitInv'
<1>1. Held = 0 /\ Len(write_wating_lists_) = 0 BY DEF Held, MayExit
<1>2. Len(printed) = issued BY <1>1 DEF LineInv
<1>3. upc \notin {"no", "exit", "done"} BY Zenon DEF ExitInv, MayExit
<1> QED BY <1>2, <1>3, Zenon DEF ExitInv

LEMMA UninitExit ==
  ASSUME LineInv, ExitInv, log_uninit \/ Uninit
  PROVE  ExitInv'
<1>0. issued \in Nat BY DEF LineInv
<1>1. CASE log_uninit
  <2>1. /\ upc = "no" /\ upc' = "exit" /\ before' = issued
        /\ UNCHANGED <<pc, printed, exit_flag_, issued, died>>
    BY <1>1 DEF log_uninit, outVars
  <2>2. issued <= issued BY <1>0
  <2>3. ~exit_flag_ /\ (pc = "ended" => died) BY <2>1, Zenon DEF ExitInv
  <2> QED BY <1>0, <2>1, <2>2, <2>3, Zenon DEF ExitInv
<1>2. CASE SetExit
  <2>1. upc = "exit" /\ upc' = "notify" /\ UNCHANGED <<pc, printed, issued, before, died>>
    BY <1>2 DEF SetExit, outVars, history
  <2> QED BY <2>1, Zenon DEF ExitInv
<1>3. CASE Notify
  <2>1. /\ upc = "notify" /\ upc' = "join" /\ UNCHANGED <<printed, issued, before, died, exit_flag_>>
        /\ pc' = "ended" <=> pc = "ended"
    BY <1>3, NotifyWrites DEF Notify, outVars, ctlVars
  <2> QED BY <2>1, Zenon DEF ExitInv
<1>4. CASE Join
  <2>1. /\ upc = "join" /\ upc' = "done" /\ pc = "ended"
        /\ UNCHANGED <<pc, printed, issued, before, died, exit_flag_>>
    BY <1>4 DEF Join, outVars, ctlVars, history
  <2> QED BY <2>1, Zenon DEF ExitInv
<1> QED BY <1>1, <1>2, <1>3, <1>4 DEF Uninit
-----------------------------------------------------------------------------
(***************************************************************************)
(* The files.                                                              *)
(***************************************************************************)
LEMMA OnceKept ==
  ASSUME files' = files, printed' = printed
  PROVE  Once' <=> Once
BY DEF Once

LEMMA DiskKept ==
  ASSUME DiskInv, now' \in 0 .. MaxTime, UNCHANGED <<name, files, printed>>, clobbered => clobbered'
  PROVE  DiskInv'
<1>1. Once' <=> Once BY OnceKept
<1> QED BY <1>1, Zenon DEF DiskInv

\* A new file is an empty one, or emptied one of this second, which is recorded.
LEMMA OpenedFile ==
  ASSUME DiskInv, Fopen, UNCHANGED <<now, printed>>
  PROVE  DiskInv'
<1>1. now \in 0 .. MaxTime /\ name' = now /\ files \in [0 .. MaxTime -> Seq(Nat)]
      /\ files' = [files EXCEPT ![now] = <<>>]
  BY DEF DiskInv, Fopen
<1>2. files' \in [0 .. MaxTime -> Seq(Nat)] BY <1>1
<1>3. ASSUME Named, ~clobbered' PROVE Once'
  <2>1. ~clobbered /\ files[now] = <<>> BY <1>3, Zenon DEF Fopen
  <2>2. files' = files BY <1>1, <2>1
  <2>3. Once BY <1>3, <2>1, Zenon DEF DiskInv
  <2> QED BY <2>2, <2>3, OnceKept
<1> QED BY <1>1, <1>2, <1>3, Zenon DEF DiskInv

\* What a write to an open file leaves on disk.
LEMMA WrittenFile ==
  ASSUME DiskInv, NEW line \in Nat, write2file(line), ~clobbered'
  PROVE  /\ ~clobbered /\ name \in 0 .. MaxTime /\ name' = name
         /\ files' \in [0 .. MaxTime -> Seq(Nat)]
         /\ \A s \in (0 .. MaxTime) \ {name} : files'[s] = files[s]
         /\ Len(files[name]) \in Nat /\ Len(files'[name]) = Len(files[name]) + 1
         /\ files'[name][Len(files[name]) + 1] = line
         /\ \A k \in 1 .. Len(files[name]) : files'[name][k] = files[name][k]
<1>1. ~clobbered /\ log_file_ = "open" BY Zenon DEF write2file
<1>2. name \in 0 .. MaxTime /\ name' = name /\ files \in [0 .. MaxTime -> Seq(Nat)]
      /\ files' = [files EXCEPT ![name] = Append(files[name], line)]
  BY <1>1 DEF DiskInv, write2file
<1>3. files[name] \in Seq(Nat) BY <1>2
<1>4. files'[name] = Append(files[name], line) BY <1>2
<1> QED BY <1>1, <1>2, <1>3, <1>4

LEMMA WriteTypes ==
  ASSUME DiskInv, NEW line \in Nat, write2file(line)
  PROVE  name' \in 0 .. MaxTime /\ files' \in [0 .. MaxTime -> Seq(Nat)]
<1>1. name \in 0 .. MaxTime /\ name' = name /\ files \in [0 .. MaxTime -> Seq(Nat)]
  BY DEF DiskInv, write2file
<1>2. CASE log_file_ = "open"
  <2>1. Append(files[name], line) \in Seq(Nat) BY <1>1
  <2>2. files' = [files EXCEPT ![name] = Append(files[name], line)] BY <1>2 DEF write2file
  <2> QED BY <1>1, <2>1, <2>2
<1>3. CASE log_file_ # "open" BY <1>1, <1>3 DEF write2file
<1> QED BY <1>2, <1>3

\* A FATAL line, or the next line to be printed, is one that no file has.
LEMMA OnceMore ==
  ASSUME DiskInv, Once, NEW line \in Nat, write2file(line), ~clobbered', Len(printed) \in Nat,
         \/ line = 0 /\ Len(printed') = Len(printed)
         \/ line = Len(printed) + 1 /\ Len(printed') = Len(printed) + 1
  PROVE  Once'
<1> DEFINE T == 0 .. MaxTime
           m == Len(printed)
           n == Len(printed')
           x == Len(files[name]) + 1
<1>1. name \in T /\ Len(files[name]) \in Nat BY WrittenFile
<1>2. x \in 1 .. Len(files'[name]) /\ files'[name][x] = line BY WrittenFile
<1>a. /\ Len(files'[name]) = Len(files[name]) + 1
      /\ \A k \in 1 .. Len(files[name]) : files'[name][k] = files[name][k]
  BY WrittenFile
<1>b. \A s \in T : s # name => files'[s] = files[s] BY WrittenFile
<1>3. ASSUME NEW s \in T, NEW k \in 1 .. Len(files[s])
      PROVE  k \in 1 .. Len(files'[s]) /\ files'[s][k] = files[s][k]
  <2>1. CASE s = name BY <1>1, <1>a, <2>1
  <2>2. CASE s # name BY <1>b, <2>2
  <2> QED BY <2>1, <2>2
<1>4. ASSUME NEW s \in T, NEW k \in 1 .. Len(files'[s])
      PROVE  (s = name /\ k = x) \/ k \in 1 .. Len(files[s])
  <2>1. CASE s = name BY <1>1, <1>a, <2>1
  <2>2. CASE s # name BY <1>b, <2>2
  <2> QED BY <2>1, <2>2
<1>5. m \in Nat /\ ((line = 0 /\ n = m) \/ (line = m + 1 /\ n = m + 1)) OBVIOUS
<1> HIDE DEF m, n, x
<1>6. \A s \in T : \A k \in 1 .. Len(files[s]) : files[s][k] \in 0 .. m BY DEF Once, m
<1>7. ASSUME NEW s \in T, NEW k \in 1 .. Len(files'[s]) PROVE files'[s][k] \in 0 .. n
  <2>1. CASE s = name /\ k = x BY <1>2, <1>5, <2>1
  <2>2. CASE k \in 1 .. Len(files[s])
    <3>1. files'[s][k] \in 0 .. m BY <1>3, <1>6, <2>2, Zenon
    <3> QED BY <1>5, <3>1
  <2> QED BY <1>4, <2>1, <2>2
<1>8. ASSUME NEW s \in T, NEW r \in T, NEW k \in 1 .. Len(files'[s]), NEW j \in 1 .. Len(files'[r]),
             files'[s][k] = files'[r][j], files'[s][k] # 0
      PROVE  s = r /\ k = j
  <2>0. \A q \in T : \A i \in 1 .. Len(files[q]) : files'[q][i] # line \/ line = 0
    <3> SUFFICES ASSUME NEW q \in T, NEW i \in 1 .. Len(files[q]), line # 0 PROVE files'[q][i] # line
      OBVIOUS
    <3>1. files'[q][i] \in 0 .. m BY <1>3, <1>6, Zenon
    <3> QED BY <1>5, <3>1
  <2>1. CASE s = name /\ k = x /\ r = name /\ j = x BY <2>1
  <2>2. CASE s = name /\ k = x /\ j \in 1 .. Len(files[r]) BY <1>2, <1>8, <2>0, <2>2, Zenon
  <2>3. CASE k \in 1 .. Len(files[s]) /\ r = name /\ j = x BY <1>2, <1>8, <2>0, <2>3
  <2>4. CASE k \in 1 .. Len(files[s]) /\ j \in 1 .. Len(files[r])
    <3>1. files[s][k] = files[r][j] /\ files[s][k] # 0 BY <1>3, <1>8, <2>4, Zenon
    <3> QED BY <2>4, <3>1 DEF Once
  <2> QED BY <1>4, <2>1, <2>2, <2>3, <2>4
<1>9. ASSUME NEW i \in 1 .. n PROVE \E s \in T : \E k \in 1 .. Len(files'[s]) : files'[s][k] = i
  <2>1. CASE i \in 1 .. m
    <3>1. PICK s \in T : \E k \in 1 .. Len(files[s]) : files[s][k] = i BY <2>1, Zenon DEF Once, m
    <3> QED BY <1>3, <3>1
  <2>2. CASE i = line BY <1>1, <1>2, <2>2
  <2> QED BY <1>5, <2>1, <2>2
<1> QED BY <1>7, <1>8, <1>9 DEF Once, n

LEMMA WriteDisk ==
  ASSUME DiskInv, NEW line \in Nat, write2file(line), Len(printed) \in Nat, now' = now,
         \/ line = 0 /\ Len(printed') = Len(printed)
         \/ line = Len(printed) + 1 /\ Len(printed') = Len(printed) + 1
  PROVE  DiskInv'
<1>1. name' \in 0 .. MaxTime /\ files' \in [0 .. MaxTime -> Seq(Nat)] BY WriteTypes
<1>2. now' \in 0 .. MaxTime BY DEF DiskInv
<1>3. ASSUME Named, ~clobbered' PROVE Once'
  <2>1. ~clobbered BY <1>3, WrittenFile
  <2>2. Once BY <1>3, <2>1, Zenon DEF DiskInv
  <2> QED BY <1>3, <2>2, OnceMore
<1> QED BY <1>1, <1>2, <1>3, Zenon DEF DiskInv

\* FileInv is what Once says.
LEMMA OnceFiles == LineInv /\ DiskInv => FileInv
<1> SUFFICES ASSUME LineInv, DiskInv, Named, ~clobbered, NEW i \in 1 .. Len(printed)
             PROVE  \E s \in 0 .. MaxTime :
                        /\ \E k \in 1 .. Len(files[s]) :
                              /\ files[s][k] = printed[i]
                              /\ \A j \in 1 .. Len(files[s]) : files[s][j] = printed[i] => j = k
                        /\ \A r \in (0 .. MaxTime) \ {s} :
                              \A j \in 1 .. Len(files[r]) : files[r][j] # printed[i]
  BY DEF FileInv
<1>1. printed[i] = i /\ i # 0 BY DEF LineInv
<1>2. Once BY Zenon DEF DiskInv
<1>3. PICK s \in 0 .. MaxTime : \E k \in 1 .. Len(files[s]) : files[s][k] = i BY <1>2, Zenon DEF Once
<1>4. PICK k \in 1 .. Len(files[s]) : files[s][k] = i BY <1>3
<1>5. \A r \in 0 .. MaxTime : \A j \in 1 .. Len(files[r]) : files[r][j] = i => s = r /\ k = j
  BY <1>1, <1>2, <1>4 DEF Once
<1> QED BY <1>1, <1>4, <1>5
-----------------------------------------------------------------------------
(***************************************************************************)
(* The steps.                                                              *)
(***************************************************************************)
\* What moves no line keeps the lines and the end.
LEMMA QuietStep ==
  ASSUME LogInv, UNCHANGED lineVars, UNCHANGED <<before, exit_flag_, upc, died>>,
         pc' = "write" <=> pc = "write", pc' = "ended" <=> pc = "ended"
  PROVE  LineInv' /\ ExitInv'
<1>1. LineInv /\ ExitInv BY DEF LogInv
<1>2. LineInv' BY <1>1, LineKept
<1>3. issued \in Nat /\ issued' = issued /\ printed' = printed /\ Len(printed) \in Nat
  BY <1>1 DEF LineInv, lineVars
<1> QED BY <1>1, <1>2, <1>3, ExitKept

LEMMA FatalLog ==
  ASSUME LogInv, NEW t \in Thread, FatalStep(t)
  PROVE  LogInv'
<1>0. LineInv /\ DiskInv /\ Len(printed) \in Nat BY DEF LogInv, LineInv
<1>1. /\ UNCHANGED lineVars /\ UNCHANGED <<before, exit_flag_, upc, died>> /\ pc' = pc
      /\ now' = now /\ printed' = printed
  BY DEF FatalStep, lineVars, outVars, ctlVars, history
<1>2. LineInv' /\ ExitInv' BY <1>1, QuietStep
<1>3. now' \in 0 .. MaxTime BY <1>0, <1>1 DEF DiskInv
<1>4. CASE Fclose
  <2>1. UNCHANGED <<name, files>> /\ (clobbered => clobbered') BY <1>4, Zenon DEF Fclose
  <2> QED BY <1>0, <1>1, <1>2, <1>3, <2>1, DiskKept DEF LogInv
<1>5. CASE Fopen BY <1>0, <1>1, <1>2, <1>5, OpenedFile DEF LogInv
<1>6. CASE UNCHANGED <<name, files, clobbered>> BY <1>0, <1>1, <1>2, <1>3, <1>6, DiskKept DEF LogInv
<1>7. CASE write2file(0)
  <2>1. 0 \in Nat /\ Len(printed') = Len(printed) BY <1>1
  <2>2. DiskInv' BY <1>0, <1>1, <1>7, <2>1, WriteDisk
  <2> QED BY <1>2, <2>2 DEF LogInv
<1> QED BY <1>4, <1>5, <1>6, <1>7 DEF FatalStep

LEMMA CreateLog ==
  ASSUME LogInv, CreateFile
  PROVE  LogInv'
<1>0. LineInv /\ ExitInv /\ DiskInv BY DEF LogInv
<1>1. /\ UNCHANGED lineVars /\ UNCHANGED <<before, exit_flag_, upc>>
      /\ pc \in {"close", "open"} /\ pc' # "write" /\ now' = now /\ printed' = printed /\ issued' = issued
  BY DEF CreateFile, lineVars, outVars, ctlVars
<1>2. LineInv' BY <1>0, <1>1, LineKept
<1>3. now' \in 0 .. MaxTime BY <1>0, <1>1 DEF DiskInv
<1>4. CASE pc' # "ended" /\ died' = died /\ Fclose
  <2>1. ExitInv' BY <1>1, <1>4, QuietStep
  <2>2. UNCHANGED <<name, files>> /\ (clobbered => clobbered') BY <1>4, Zenon DEF Fclose
  <2> QED BY <1>0, <1>1, <1>2, <1>3, <2>1, <2>2, DiskKept DEF LogInv
<1>5. CASE pc' # "ended" /\ died' = died /\ Fopen
  <2>1. ExitInv' BY <1>1, <1>5, QuietStep
  <2> QED BY <1>0, <1>1, <1>2, <1>5, <2>1, OpenedFile DEF LogInv
<1>6. CASE died' /\ UNCHANGED <<name, files, clobbered>>
  <2>1. ExitInv' BY <1>0, <1>1, <1>6, GivenUp
  <2> QED BY <1>0, <1>1, <1>2, <1>3, <1>6, <2>1, DiskKept DEF LogInv
<1> QED BY <1>4, <1>5, <1>6 DEF CreateFile

LEMMA CheckLog ==
  ASSUME LogInv, Check
  PROVE  LogInv'
<1>0. LineInv /\ ExitInv /\ DiskInv /\ issued \in Nat /\ Len(printed) \in Nat BY DEF LogInv, LineInv
<1>1. /\ UNCHANGED <<before, exit_flag_, upc, died>> /\ UNCHANGED <<name, files, printed, issued, clobbered>>
      /\ now' = now /\ pc = "check"
  BY DEF Check, fileVars, ctlVars, history
<1>2. now' \in 0 .. MaxTime BY <1>0, <1>1 DEF DiskInv
<1>3. DiskInv' BY <1>0, <1>1, <1>2, DiskKept
<1>4. CASE MayExit
  <2>1. pc' = "ended" /\ UNCHANGED <<write_wating_lists_, out_line>> BY <1>4 DEF Check
  <2>2. LineInv' BY <1>0, <1>1, <2>1, LineKept DEF lineVars
  <2>3. ExitInv' BY <1>0, <1>1, <1>4, <2>1, Drained
  <2> QED BY <1>3, <2>2, <2>3 DEF LogInv
<1>5. CASE ~MayExit /\ write_wating_lists_ = <<>>
  <2>1. pc' = "prewait" /\ UNCHANGED <<write_wating_lists_, out_line>> BY <1>5 DEF Check
  <2>2. LineInv' /\ ExitInv' BY <1>1, <2>1, QuietStep DEF lineVars
  <2> QED BY <1>3, <2>2 DEF LogInv
<1>6. CASE ~MayExit /\ write_wating_lists_ # <<>>
  <2>1. /\ pc' = "write" /\ out_line' = Front(write_wating_lists_)
        /\ write_wating_lists_' = Tail(write_wating_lists_)
    BY <1>6 DEF Check
  <2>2. LineInv' BY <1>0, <1>1, <1>6, <2>1, TakenLine
  <2>3. ExitInv' BY <1>0, <1>1, <2>1, ExitKept
  <2> QED BY <1>3, <2>2, <2>3 DEF LogInv
<1> QED BY <1>4, <1>5, <1>6

LEMMA WriteLog ==
  ASSUME LogInv, Write
  PROVE  LogInv'
<1>0. /\ LineInv /\ ExitInv /\ DiskInv /\ issued \in Nat /\ Len(printed) \in Nat /\ out_line \in Nat
  BY DEF LogInv, LineInv
<1>1. /\ pc = "write" /\ pc' = "top" /\ printed' = Append(printed, out_line) /\ now' = now
      /\ UNCHANGED <<issued, out_line, write_wating_lists_>>
      /\ UNCHANGED <<before, exit_flag_, upc, died>>
  BY DEF Write, ctlVars, history
<1>2. LineInv' /\ Len(printed') = Len(printed) + 1 /\ out_line = Len(printed) + 1
  BY <1>0, <1>1, PrintedLine
<1>3. ExitInv' BY <1>0, <1>1, <1>2, ExitKept
<1>4. DiskInv'
  <2>1. CASE Named
    <3>1. write2file(out_line) BY <2>1 DEF Write
    <3> QED BY <1>0, <1>1, <1>2, <3>1, WriteDisk
  <2>2. CASE ~Named
    <3>1. UNCHANGED <<name, files>> BY <2>2 DEF Write, fileVars
    <3> QED BY <1>0, <1>1, <2>2, <3>1, Zenon DEF DiskInv
  <2> QED BY <2>1, <2>2
<1> QED BY <1>2, <1>3, <1>4 DEF LogInv

LEMMA OutputLog ==
  ASSUME LogInv, NEW t \in Thread, NEW l \in Level, log_output(t, l)
  PROVE  LogInv'
<1>0. /\ LineInv /\ ExitInv /\ DiskInv /\ issued \in Nat /\ Len(printed) \in Nat
  BY DEF LogInv, LineInv
<1>1. /\ issued' = issued + 1 /\ UNCHANGED <<before, exit_flag_, upc, died>>
      /\ UNCHANGED <<name, files, printed, clobbered>> /\ now' = now
      /\ pc' = "ended" <=> pc = "ended"
  BY NotifyWrites DEF log_output, outVars, fileVars, ctlVars
<1>2. LineInv' BY <1>0, OutputLine
<1>3. ExitInv' BY <1>0, <1>1, ExitKept
<1>4. now' \in 0 .. MaxTime BY <1>0, <1>1 DEF DiskInv
<1> QED BY <1>0, <1>1, <1>2, <1>3, <1>4, DiskKept DEF LogInv

LEMMA UninitLog ==
  ASSUME LogInv, log_uninit \/ Uninit
  PROVE  LogInv'
<1>0. LineInv /\ ExitInv /\ DiskInv BY DEF LogInv
<1>1. /\ UNCHANGED lineVars /\ UNCHANGED <<name, files, printed>> /\ now' = now
      /\ pc' = "write" <=> pc = "write"
  BY NotifyWrites DEF log_uninit, Uninit, SetExit, Notify, Join, lineVars, outVars, fileVars, ctlVars,
                      history
<1>2. clobbered => clobbered' BY Zenon DEF log_uninit, Uninit, SetExit, Notify, Join, fileVars
<1>3. now' \in 0 .. MaxTime BY <1>0, <1>1 DEF DiskInv
<1> QED BY <1>0, <1>1, <1>2, <1>3, LineKept, UninitExit, DiskKept DEF LogInv

\* The steps that move no line, touch no file and do not end the writer.
LEMMA IdleLog ==
  ASSUME LogInv, UNCHANGED lineVars, UNCHANGED <<before, exit_flag_, upc, died>>,
         pc' = "write" <=> pc = "write", pc' = "ended" <=> pc = "ended",
         UNCHANGED fileVars, now' \in 0 .. MaxTime
  PROVE  LogInv'
<1>1. LineInv' /\ ExitInv' BY QuietStep
<1>2. DiskInv /\ UNCHANGED <<name, files, printed>> /\ clobbered' = clobbered
  BY DEF LogInv, fileVars, lineVars
<1> QED BY <1>1, <1>2, DiskKept DEF LogInv

LEMMA LogStep == LogInv /\ [Next]_vars => LogInv'
<1> SUFFICES ASSUME LogInv, [Next]_vars PROVE LogInv' OBVIOUS
<1>0. now \in 0 .. MaxTime BY DEF LogInv, DiskInv
<1> USE DEF lineVars, outVars, ctlVars, history
<1>1. ASSUME NEW l \in Level, log_set_level(l) PROVE LogInv'
  BY <1>0, <1>1, IdleLog DEF log_set_level
<1>2. ASSUME NEW t \in Thread, LogFatal(t) PROVE LogInv' BY <1>0, <1>2, IdleLog DEF LogFatal
<1>3. CASE WriterBegin BY <1>0, <1>3, IdleLog DEF WriterBegin
<1>4. CASE Top BY <1>0, <1>4, IdleLog DEF Top
<1>5. CASE Lock BY <1>0, <1>5, IdleLog DEF Lock
<1>6. CASE Wait BY <1>0, <1>6, IdleLog DEF Wait
<1>7. CASE SpuriousWakeup BY <1>0, <1>7, IdleLog DEF SpuriousWakeup
<1>8. CASE Tick
  <2>1. now' \in 0 .. MaxTime BY <1>0, <1>8, LogAssumption DEF Tick
  <2> QED BY <1>8, <2>1, IdleLog DEF Tick
<1>9. CASE UNCHANGED vars BY <1>0, <1>9, IdleLog DEF vars
<1> QED BY <1>1, <1>2, <1>3, <1>4, <1>5, <1>6, <1>7, <1>8, <1>9, OutputLog, FatalLog, CreateLog,
           CheckLog, WriteLog, UninitLog DEF Next, Writer
-----------------------------------------------------------------------------
(***************************************************************************)
(* What the invariant says.                                                *)
(***************************************************************************)
\* One sequence of lines behind another.
Joined(s, t) ==
    /\ s \o t \in Seq(Nat) /\ Len(s \o t) = Len(s) + Len(t)
    /\ \A i \in 1 .. Len(s) + Len(t) : (s \o t)[i] = IF i <= Len(s) THEN s[i] ELSE t[i - Len(s)]

LEMMA Joining == ASSUME NEW s \in Seq(Nat), NEW t \in Seq(Nat) PROVE Joined(s, t)
BY DEF Joined

LEMMA SameSequence ==
  ASSUME NEW s \in Seq(Nat), NEW n \in Nat, Len(s) = n, \A i \in 1 .. n : s[i] = i
  PROVE  s = [i \in 1 .. n |-> i]
<1>1. s = [i \in 1 .. Len(s) |-> s[i]] OBVIOUS
<1> QED BY <1>1

LEMMA LinesInOrder == LineInv => OrderInv
<1> SUFFICES ASSUME LineInv PROVE OrderInv OBVIOUS
<1> DEFINE q == write_wating_lists_
           h == IF pc = "write" THEN <<out_line>> ELSE <<>>
           n == Len(q)
           k == Len(printed)
           a == printed \o h
           r == a \o q
<1>1. /\ issued \in Nat /\ printed \in Seq(Nat) /\ q \in Seq(Nat) /\ h \in Seq(Nat)
      /\ k \in Nat /\ n \in Nat /\ Held \in Nat /\ k + Held + n = issued
      /\ \A i \in 1 .. k : printed[i] = i
      /\ \A i \in 1 .. n : q[i] = k + Held + i
  BY DEF LineInv, Held
<1>2. Len(h) = Held /\ \A i \in 1 .. Held : h[i] = k + i
  <2>1. CASE pc = "write"
    <3>1. Held = 1 /\ h = <<out_line>> /\ out_line = k + 1 BY <2>1 DEF LineInv, Held
    <3> QED BY <3>1
  <2>2. CASE pc # "write"
    <3>1. Held = 0 /\ h = <<>> BY <2>2 DEF Held
    <3> QED BY <3>1
  <2> QED BY <2>1, <2>2
<1> HIDE DEF h
<1>3. /\ a \in Seq(Nat) /\ Len(a) = k + Held
      /\ \A i \in 1 .. k + Held : a[i] = IF i <= k THEN printed[i] ELSE h[i - k]
  <2>1. Joined(printed, h) BY <1>1, Joining
  <2> QED BY <1>2, <2>1 DEF Joined
<1>4. ASSUME NEW i \in 1 .. k + Held PROVE a[i] = i
  <2>1. CASE i <= k BY <1>1, <1>3, <2>1
  <2>2. CASE ~(i <= k)
    <3>1. i - k \in 1 .. Held /\ k + (i - k) = i BY <1>1, <2>2
    <3> QED BY <1>2, <1>3, <2>2, <3>1
  <2> QED BY <2>1, <2>2, Zenon
<1> HIDE DEF a
<1>5. /\ r \in Seq(Nat) /\ Len(r) = issued
      /\ \A i \in 1 .. issued : r[i] = IF i <= k + Held THEN a[i] ELSE q[i - (k + Held)]
  <2>1. Joined(a, q) BY <1>1, <1>3, Joining
  <2> QED BY <1>1, <1>3, <2>1 DEF Joined
<1>6. ASSUME NEW i \in 1 .. issued PROVE r[i] = i
  <2>1. CASE i <= k + Held BY <1>1, <1>4, <1>5, <2>1
  <2>2. CASE ~(i <= k + Held)
    <3>1. i - (k + Held) \in 1 .. n /\ k + Held + (i - (k + Held)) = i BY <1>1, <2>2
    <3> QED BY <1>1, <1>5, <2>2, <3>1, Zenon
  <2> QED BY <2>1, <2>2, Zenon
<1> HIDE DEF r
<1>7. r = [i \in 1 .. issued |-> i] BY <1>1, <1>5, <1>6, SameSequence
<1> QED BY <1>7, Zenon DEF OrderInv, h, a, r

\* log_uninit returns after the writer ended.
LEMMA EndedDrained == LineInv /\ ExitInv => DrainInv
<1> SUFFICES ASSUME LineInv, ExitInv, upc = "done", ~died PROVE Len(printed) >= before BY DEF DrainInv
<1>1. before <= Len(printed) /\ before \in Nat BY Zenon DEF ExitInv
<1>2. Len(printed) \in Nat BY DEF LineInv
<1> QED BY <1>1, <1>2

LEMMA LogCorrect == Spec => []LogInv
BY InitLog, LogStep, PTL DEF Spec

\* OrderInv for any threads, levels and numbers of lines: of the lines that
\* log_output put in the list, the writer thread loses none, prints none twice
\* and lets none overtake another, whoever logs and whenever the writer is woken,
\* rolls its file, gives up or is told to end.
THEOREM OrderCorrect == Spec => []OrderInv
<1>1. LogInv => OrderInv BY LinesInOrder DEF LogInv
<1> QED BY <1>1, LogCorrect, PTL

\* DrainInv likewise: when log_uninit returns, the writer that did not give up on
\* a file has printed every line logged before the call.
THEOREM DrainCorrect == Spec => []DrainInv
<1>1. LogInv => DrainInv BY EndedDrained DEF LogInv
<1> QED BY <1>1, LogCorrect, PTL

\* FileInv for any roll size and any number of files: every line write_thread_proc
\* printed is in exactly one file, at exactly one place, as long as create_file
\* emptied no file with content and no write met a file that is not open.
THEOREM FileCorrect == Spec => []FileInv
<1>1. LogInv => FileInv BY OnceFiles DEF LogInv
<1> QED BY <1>1, LogCorrect, PTL
=============================================================================
