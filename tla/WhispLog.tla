------------------------------ MODULE WhispLog ------------------------------
(***************************************************************************)
(* log/whisp_log.cpp: the asynchronous log.  Threads append lines to a     *)
(* list; one writer thread takes them out, prints them and writes them to  *)
(* a file that it rolls; log_uninit ends the writer.  A FATAL line is      *)
(* written by the thread that logs it, without the mutex.                  *)
(*                                                                         *)
(* Lines are numbered in the order they are put in the list; a FATAL line  *)
(* is 0 in a file.  A file name is the second it was made in (read at the  *)
(* fopen, a moment later than the code does): a file made twice in a       *)
(* second is emptied.                                                      *)
(***************************************************************************)
EXTENDS Integers, Sequences

CONSTANTS
    Thread,     \* the threads that log
    Level,      \* the levels they use, some of LOG_LEVEL
    roll_size_,
    Named,      \* log_name_ is not empty
    MayFail,    \* fopen may fail
    MaxLines,   \* bound: how many lines are logged
    MaxTime     \* bound: how many seconds pass

INFO     == 2
FATAL    == 6
CRITICAL == 7

ASSUME LogAssumption ==
    /\ Level \subseteq 0 .. CRITICAL
    /\ roll_size_ \in Nat \ {0}
    /\ {Named, MayFail} \subseteq BOOLEAN
    /\ {MaxLines, MaxTime} \subseteq Nat

VARIABLES
    cur_level_,
    write_wating_lists_,
    log_file_,      \* "null", "open" or "closed" (a dangling FILE*)
    writen_size_,
    exit_flag_,
    running_flag_,
    pc,             \* the writer thread; it holds write_mutex_ at some labels
    out_line,       \* the line the writer took out
    upc,            \* log_uninit
    fpc,            \* log_output of a FATAL line, for each thread
    now,            \* external: the clock
    name,           \* the name of the current file
    files,          \* external: what is on disk
    issued,         \* history: the number of lines put in the list
    fatals,         \* history: the number of FATAL lines logged
    printed,        \* history: the lines the writer printed, in order
    before,         \* history: issued when log_uninit was called
    died,           \* history: the writer gave up on a file
    missed,         \* history: log_uninit notified between test and wait
    clobbered       \* history: a file with content was emptied or torn

outVars  == <<writen_size_, out_line, printed>>
fileVars == <<log_file_, name, files, clobbered>>
ctlVars  == <<cur_level_, exit_flag_, running_flag_>>
history  == <<issued, fatals, before, died, missed>>
vars     == <<write_wating_lists_, pc, upc, fpc, now, outVars, fileVars, ctlVars, history>>

\* The labels at which the writer holds write_mutex_.
Locked == pc \in {"check", "prewait", "write"}

\* The state log_init leaves, with the writer thread created.
Init ==
    /\ cur_level_ = INFO
    /\ write_wating_lists_ = <<>>
    /\ log_file_ = "null" /\ name = 0
    /\ writen_size_ = 0
    /\ exit_flag_ = FALSE /\ running_flag_ = FALSE
    /\ pc = "begin" /\ out_line = 0
    /\ upc = "no"
    /\ fpc = [t \in Thread |-> "none"]
    /\ now = 0 /\ files = [s \in 0 .. MaxTime |-> <<>>]
    /\ issued = 0 /\ fatals = 0 /\ printed = <<>> /\ before = 0
    /\ died = FALSE /\ missed = FALSE /\ clobbered = FALSE

\* Lines are of two lengths, so that one may pass roll_size_ or just reach it.
Length(i) == 1 + (i % 2)

log_set_level(l) ==
    /\ l >= 0 /\ l <= FATAL
    /\ cur_level_' = l
    /\ UNCHANGED <<write_wating_lists_, pc, upc, fpc, now, outVars, fileVars, exit_flag_,
                   running_flag_, history>>

\* create_file: fclose what is open, then fopen with "w+".
Fclose ==
    /\ log_file_' = IF log_file_ = "null" THEN "null" ELSE "closed"
    /\ clobbered' = (clobbered \/ log_file_ = "closed")
    /\ UNCHANGED <<name, files>>

Fopen ==
    /\ log_file_' = "open"
    /\ name' = now
    /\ files' = [files EXCEPT ![now] = <<>>]
    /\ clobbered' = (clobbered \/ files[now] # <<>>)

\* The variant that writes again what fwrite took.
WriteTwice(line) ==
    /\ files' = IF log_file_ = "open" THEN [files EXCEPT ![name] = @ \o <<line, line>>] ELSE files
    /\ clobbered' = (clobbered \/ log_file_ # "open")
    /\ UNCHANGED <<log_file_, name>>

write2file(line) ==
    /\ files' = IF log_file_ = "open" THEN [files EXCEPT ![name] = Append(@, line)] ELSE files
    /\ clobbered' = (clobbered \/ log_file_ # "open")
    /\ UNCHANGED <<log_file_, name>>

-----------------------------------------------------------------------------
Passes(l) == ~(l < cur_level_ /\ l # CRITICAL)

\* The variant that wakes nobody.
NotifyNobody(at) == at

\* notify_one: the writer is the only one who waits.
notify_one(at) == IF at = "waiting" THEN "lock" ELSE at

\* log_output of any other level, and log_output_binary, under the mutex.
log_output(t, l) ==
    /\ l # FATAL /\ Passes(l)
    /\ fpc[t] = "none" /\ ~Locked
    /\ issued + fatals < MaxLines
    /\ issued' = issued + 1
    /\ write_wating_lists_' = Append(write_wating_lists_, issued + 1)
    /\ pc' = notify_one(pc)
    /\ UNCHANGED <<upc, fpc, now, outVars, fileVars, ctlVars, fatals, before, died, missed>>

\* log_output of a FATAL line: the test for a file, ...
LogFatal(t) ==
    /\ FATAL \in Level /\ Passes(FATAL)
    /\ fpc[t] = "none"
    /\ issued + fatals < MaxLines
    /\ fatals' = fatals + 1
    /\ fpc' = [fpc EXCEPT ![t] = IF ~Named THEN "none"
                                 ELSE IF log_file_ = "null" THEN "close" ELSE "write"]
    /\ UNCHANGED <<write_wating_lists_, pc, upc, now, outVars, fileVars, ctlVars, issued,
                   before, died, missed>>

\* ... making one in two steps, and the write.
FatalStep(t) ==
    /\ \/ /\ fpc[t] = "close"
          /\ Fclose
          /\ fpc' = [fpc EXCEPT ![t] = "open"]
       \/ /\ fpc[t] = "open"
          /\ Fopen
          /\ fpc' = [fpc EXCEPT ![t] = "write"]
       \/ /\ fpc[t] = "open" /\ MayFail
          /\ log_file_' = "null"
          /\ fpc' = [fpc EXCEPT ![t] = "none"]
          /\ UNCHANGED <<name, files, clobbered>>
       \/ /\ fpc[t] = "write"
          /\ write2file(0)
          /\ fpc' = [fpc EXCEPT ![t] = "none"]
    /\ UNCHANGED <<write_wating_lists_, pc, upc, now, outVars, ctlVars, history>>

-----------------------------------------------------------------------------
(***************************************************************************)
(* write_thread_proc.                                                      *)
(***************************************************************************)
WriterBegin ==
    /\ pc = "begin" /\ pc' = "top"
    /\ running_flag_' = TRUE
    /\ UNCHANGED <<write_wating_lists_, upc, fpc, now, outVars, fileVars, cur_level_, exit_flag_,
                   history>>

Full == writen_size_ >= roll_size_

Top ==
    /\ pc = "top"
    /\ IF Named /\ (log_file_ = "null" \/ Full)
       THEN pc' = "close" /\ writen_size_' = 0
       ELSE pc' = "lock" /\ UNCHANGED writen_size_
    /\ UNCHANGED <<write_wating_lists_, upc, fpc, now, out_line, printed, fileVars, ctlVars, history>>

CreateFile ==
    /\ \/ /\ pc = "close" /\ pc' = "open"
          /\ Fclose
          /\ UNCHANGED died
       \/ /\ pc = "open" /\ pc' = "lock"
          /\ Fopen
          /\ UNCHANGED died
       \/ /\ pc = "open" /\ MayFail /\ pc' = "ended"
          /\ log_file_' = "null" /\ died' = TRUE
          /\ UNCHANGED <<name, files, clobbered>>
    /\ UNCHANGED <<write_wating_lists_, upc, fpc, now, outVars, ctlVars, issued, fatals, before,
                   missed>>

Lock ==
    /\ pc = "lock" /\ pc' = "check"
    /\ UNCHANGED <<write_wating_lists_, upc, fpc, now, outVars, fileVars, ctlVars, history>>

\* The variant that looks at exit_flag_ before it looks at the list.
ExitFirst == exit_flag_

MayExit == write_wating_lists_ = <<>> /\ exit_flag_

\* The variant that takes the newest line.
Newest(list) == list[Len(list)]

Front(list) == Head(list)

\* The test of the list and of exit_flag_, and taking a line out.
Check ==
    /\ pc = "check"
    /\ IF MayExit THEN pc' = "ended" /\ UNCHANGED <<write_wating_lists_, out_line>>
       ELSE IF write_wating_lists_ = <<>>
       THEN pc' = "prewait" /\ UNCHANGED <<write_wating_lists_, out_line>>
       ELSE /\ pc' = "write"
            /\ out_line' = Front(write_wating_lists_)
            /\ write_wating_lists_' = Tail(write_wating_lists_)
    /\ UNCHANGED <<upc, fpc, now, writen_size_, printed, fileVars, ctlVars, history>>

\* write_cond_.wait gives the mutex back; it may also return for no reason.
Wait ==
    /\ pc = "prewait" /\ pc' = "waiting"
    /\ UNCHANGED <<write_wating_lists_, upc, fpc, now, outVars, fileVars, ctlVars, history>>

SpuriousWakeup ==
    /\ pc = "waiting" /\ pc' = "lock"
    /\ UNCHANGED <<write_wating_lists_, upc, fpc, now, outVars, fileVars, ctlVars, history>>

Write ==
    /\ pc = "write" /\ pc' = "top"
    /\ printed' = Append(printed, out_line)
    /\ IF Named THEN write2file(out_line) /\ writen_size_' = writen_size_ + Length(out_line)
       ELSE UNCHANGED <<fileVars, writen_size_>>
    /\ UNCHANGED <<write_wating_lists_, upc, fpc, now, out_line, ctlVars, history>>

Writer == WriterBegin \/ Top \/ CreateFile \/ Lock \/ Check \/ Wait \/ Write

(***************************************************************************)
(* log_uninit: two flags, a notify without the mutex, join, fclose.        *)
(***************************************************************************)
log_uninit ==
    /\ upc = "no" /\ upc' = "exit"
    /\ running_flag_' = FALSE
    /\ before' = issued
    /\ UNCHANGED <<write_wating_lists_, pc, fpc, now, outVars, fileVars, cur_level_, exit_flag_,
                   issued, fatals, died, missed>>

SetExit ==
    /\ upc = "exit" /\ upc' = "notify"
    /\ exit_flag_' = TRUE
    /\ UNCHANGED <<write_wating_lists_, pc, fpc, now, outVars, fileVars, cur_level_, running_flag_,
                   history>>

Notify ==
    /\ upc = "notify" /\ upc' = "join"
    /\ pc' = notify_one(pc)
    /\ missed' = (pc = "prewait")
    /\ UNCHANGED <<write_wating_lists_, fpc, now, outVars, fileVars, ctlVars, issued, fatals, before,
                   died>>

Join ==
    /\ upc = "join" /\ pc = "ended" /\ upc' = "done"
    /\ log_file_' = "null"
    /\ clobbered' = (clobbered \/ log_file_ = "closed")
    /\ UNCHANGED <<write_wating_lists_, pc, fpc, now, outVars, name, files, ctlVars, history>>

Uninit == SetExit \/ Notify \/ Join

\* External: the clock.
Tick ==
    /\ now < MaxTime /\ now' = now + 1
    /\ UNCHANGED <<write_wating_lists_, pc, upc, fpc, outVars, fileVars, ctlVars, history>>

Next ==
    \/ \E l \in Level : log_set_level(l) \/ \E t \in Thread : log_output(t, l)
    \/ \E t \in Thread : LogFatal(t) \/ FatalStep(t)
    \/ Writer \/ SpuriousWakeup \/ log_uninit \/ Uninit \/ Tick

Spec == Init /\ [][Next]_vars

\* Every thread keeps running; nothing is said of spurious wakeups.  fwrite is
\* taken to make progress: write2file retries for ever on a full disk.
FairSpec == Spec /\ WF_vars(Writer) /\ WF_vars(Uninit)
-----------------------------------------------------------------------------
\* The type of the variables.
TypeOK ==
    /\ cur_level_ \in 0 .. FATAL
    /\ write_wating_lists_ \in Seq(1 .. issued) /\ printed \in Seq(1 .. issued)
    /\ log_file_ \in {"null", "open", "closed"}
    /\ writen_size_ \in 0 .. roll_size_ + 1
    /\ {exit_flag_, running_flag_, died, missed, clobbered} \subseteq BOOLEAN
    /\ pc \in {"begin", "top", "close", "open", "lock", "check", "prewait", "waiting", "write", "ended"}
    /\ upc \in {"no", "exit", "notify", "join", "done"}
    /\ fpc \in [Thread -> {"none", "close", "open", "write"}]
    /\ now \in 0 .. MaxTime /\ name \in 0 .. now
    /\ {issued, fatals, before, out_line} \subseteq 0 .. MaxLines

\* The lines the writer printed, the one it holds and those in the list are the
\* lines logged, in the order of log_output: none is lost, repeated or overtaken.
OrderInv ==
    printed \o (IF pc = "write" THEN <<out_line>> ELSE <<>>) \o write_wating_lists_
        = [i \in 1 .. issued |-> i]

\* When log_uninit returns, every line logged before it was called is printed,
\* unless the writer had given up: the exit test comes after the list.
DrainInv == upc = "done" /\ ~died => Len(printed) >= before

\* Every printed line is in the files exactly once, unless a file was made
\* again in the same second or a FATAL line met a file being replaced.
FileInv ==
    Named /\ ~clobbered =>
        \A i \in 1 .. Len(printed) :
            \E s \in 0 .. MaxTime :
                /\ \E k \in 1 .. Len(files[s]) :
                      /\ files[s][k] = printed[i]
                      /\ \A j \in 1 .. Len(files[s]) : files[s][j] = printed[i] => j = k
                /\ \A r \in (0 .. MaxTime) \ {s} :
                      \A j \in 1 .. Len(files[r]) : files[r][j] # printed[i]

\* A line that is logged is printed in the end, unless the writer gave up or
\* log_uninit was called: no push goes unnoticed by a writer about to wait.
EventuallyPrinted ==
    \A i \in 1 .. MaxLines : issued >= i ~> (Len(printed) >= i \/ died \/ upc # "no")

\* log_uninit returns, unless its notify came between the writer's test of
\* exit_flag_ and its wait, which the mutex it does not take would prevent.
UninitReturns == (upc # "no") ~> (upc = "done" \/ missed)
=============================================================================
