----------------------------- MODULE ShellProofs -----------------------------
(***************************************************************************)
(* wsh for any aliases, lines and length of pipelines.                     *)
(*                                                                         *)
(* Every pipeline, of any number of stages and with any of its forks       *)
(* failing, is connected as it should be and leaves nothing behind:        *)
(* TwoHolders and Outcome hold in all states of the shell.                 *)
(*                                                                         *)
(* The alias table and the history are what the user has put into them:    *)
(* Remembered holds in all states.                                         *)
(***************************************************************************)
EXTENDS Shell, TLAPS

\* The shell after it has made its pipes and begun to fork, and after it has
\* closed them
Forking == {"fork", "close"}
Waiting == {"wait", "status"}
States == {"none", "dup2", "close", "run", "zombie", "reaped"}
Live == {"dup2", "close", "run"}
Over == {"zombie", "reaped"}

Types ==
  /\ pc \in {"idle", "pipe", "done"} \cup Forking \cup Waiting /\ i \in Segs
  /\ pids \in [Segs -> Int] /\ state \in [Segs -> States] /\ status \in [Segs -> Int]
  /\ kind \in [Segs -> Kinds] /\ hold \in [Segs -> {0, 1}] /\ left \in Nat /\ buf \in [Pipes -> Nat]
  /\ fds \in [Procs -> SUBSET Ends] /\ in \in [Segs -> 0 .. nseg - 1] /\ out \in [Segs -> 0 .. nseg - 1]
  /\ failed \subseteq Procs

\* Between two pipelines nothing is left of the last one, and a pipeline is run
\* only while run_line() waits for it.
Rest == (pc = "idle" => Idle) /\ (pc # "idle" => at = "pipeline")

\* Who has which ends of the pipes: until a child closes its copies it has all of
\* them, then only the two it has duplicated.
Descriptors ==
  /\ pc = "pipe" => fds[0] = (1 .. i - 1) \X {"r", "w"}
  /\ pc \in Forking => fds[0] = Ends
  /\ pc \in Waiting \/ (pc = "done" /\ 0 \notin failed) => fds[0] = {}
  /\ \A p \in Segs :
       /\ fds[p] = IF state[p] \in {"dup2", "close"} THEN Ends ELSE {}
       /\ in[p] = IF state[p] \in {"close", "run"} THEN p - 1 ELSE 0
       /\ out[p] = IF state[p] \in {"close", "run"} /\ p < nseg THEN p ELSE 0

\* The stages the loop of forks is past
Tried(p) == (pc = "fork" /\ p < i) \/ pc = "close" \/ pc \in Waiting \/ (pc = "done" /\ 0 \notin failed)

\* A stage has a process and its number in pids[] unless its fork failed.
Stages ==
  /\ pc = "pipe" => failed = {}
  /\ 0 \in failed => pc = "done"
  /\ \A p \in Segs :
       /\ ~ Tried(p) => state[p] = "none" /\ p \notin failed
       /\ Tried(p) /\ p \notin failed => state[p] # "none" /\ pids[p] = p
       /\ Tried(p) /\ p \in failed => state[p] = "none" /\ pids[p] \in Garbage
  /\ Tried(nseg) /\ nseg \notin failed => last_pid = nseg

\* The loop of waits has reaped the stages it is past, and without failed forks no
\* others; then the status it keeps is the last stage's.
Reaped ==
  /\ pc \notin Waiting \cup {"done"} => \A p \in Segs : state[p] # "reaped"
  /\ pc = "close" => i = 1
  /\ pc = "wait" => /\ \A p \in Segs : p < i => state[p] \in {"none", "reaped"}
                    /\ failed = {} => \A p \in Segs : state[p] = "reaped" => p < i
  /\ pc \in {"status", "done"} => \A p \in Segs : state[p] \in {"none", "reaped"}
  /\ pc = "status" /\ failed = {} => status_last = status[nseg]
  /\ pc = "done" /\ failed = {} => (rc = 0 <=> status[nseg] = 0)

\* Commands that copy end in the order of the pipeline, each when its input is used
\* up.
Drained ==
  failed = {} /\ (\A p \in Segs : kind[p] = "copy") =>
    \A p \in Segs : state[p] \in Over =>
      /\ hold[p] = 0
      /\ IF p = 1 THEN left = 0 ELSE buf[p - 1] = 0 /\ state[p - 1] \in Over

Inv == Types /\ Rest /\ Descriptors /\ Stages /\ Reaped /\ Drained

------------------------------------------------------------------------------
(* The children                                                             *)

\* A stage that runs has been forked, and the shell has not reaped it.
LEMMA LiveIs ==
  ASSUME Inv, NEW p \in Segs, state[p] \in Live
  PROVE  Tried(p) /\ p \notin failed /\ pc \in {"fork", "close", "wait"} /\ 0 \notin failed
         /\ (pc = "wait" => ~ (p < i))
  BY Zenon DEF Inv, Live, Stages, Reaped, Tried, Types, Forking, Waiting

\* What a step of a child leaves as it was
LEMMA ChildStep ==
  ASSUME Inv, NEW p \in Segs, state[p] \in Live, NEW s \in {"close", "run", "zombie"},
         state' = [state EXCEPT ![p] = s], UNCHANGED shell, failed' = failed, at' = at
  PROVE  Rest' /\ Stages' /\ Reaped'
<1>1. /\ pc' = pc /\ i' = i /\ pids' = pids /\ last_pid' = last_pid /\ status_last' = status_last /\ rc' = rc
      /\ pc \in {"fork", "close", "wait"} /\ Tried(p) /\ p \notin failed /\ (pc = "wait" => ~ (p < i))
  BY LiveIs, Zenon DEF shell
<1>2. state'[p] = s /\ \A q \in Segs : q # p => state'[q] = state[q]
  BY Zenon DEF Inv, Types
<1>3. Rest'
  BY <1>1, Zenon DEF Inv, Rest
<1>4. \A q \in Segs : Tried(q)' <=> Tried(q)
  BY <1>1, Zenon DEF Tried
<1>5. Stages'
  BY <1>1, <1>2, <1>4, PipelineAssumption DEF Inv, Stages, Segs
<1>6. Reaped'
  BY <1>1, <1>2, Zenon DEF Inv, Reaped, Waiting
<1> QED
  BY <1>3, <1>5, <1>6

\* The process of a stage ends: its ends of the pipes are closed, and if the stages
\* copy, its input was used up.
LEMMA ExitsInv ==
  ASSUME Inv, NEW p \in Segs, state[p] \in Live, NEW st \in Int, Exits(p, st), at' = at,
         failed = {} /\ (\A q \in Segs : kind[q] = "copy") =>
           hold[p] = 0 /\ IF p = 1 THEN left = 0 ELSE buf[p - 1] = 0 /\ state[p - 1] \in Over
  PROVE  Inv'
<1> USE DEF Inv
<1>1. /\ pc' = pc /\ i' = i /\ pids' = pids /\ kind' = kind /\ hold' = hold /\ left' = left /\ buf' = buf
      /\ failed' = failed
  BY Zenon DEF Exits, shell
<1>2. Rest' /\ Stages' /\ Reaped'
  BY ChildStep, Zenon DEF Exits
<1>3. /\ state' = [state EXCEPT ![p] = "zombie"] /\ status' = [status EXCEPT ![p] = st]
      /\ in' = [in EXCEPT ![p] = 0] /\ out' = [out EXCEPT ![p] = 0] /\ fds' = [fds EXCEPT ![p] = {}]
  BY Zenon DEF Exits
<1>4. p \in Procs /\ p # 0 /\ Segs \subseteq Procs /\ 0 \in Procs
  BY PipelineAssumption DEF Segs, Procs
<1>5. Types'
  <2>1. state' \in [Segs -> States] /\ status' \in [Segs -> Int]
    BY <1>3, Zenon DEF Types, States
  <2>2. in' \in [Segs -> 0 .. nseg - 1] /\ out' \in [Segs -> 0 .. nseg - 1]
    BY <1>3, PipelineAssumption DEF Types
  <2>3. fds' \in [Procs -> SUBSET Ends]
    BY <1>3, Zenon DEF Types
  <2> QED
    BY <1>1, <2>1, <2>2, <2>3, Zenon DEF Types
<1>6. /\ state'[p] = "zombie" /\ in'[p] = 0 /\ out'[p] = 0 /\ fds'[p] = {} /\ fds'[0] = fds[0]
      /\ \A q \in Segs : q # p => /\ state'[q] = state[q] /\ in'[q] = in[q] /\ out'[q] = out[q]
                                  /\ fds'[q] = fds[q]
  BY <1>3, <1>4, Zenon DEF Types
<1>7. Descriptors'
  <2>1. /\ pc' = "pipe" => fds'[0] = (1 .. i' - 1) \X {"r", "w"}
        /\ pc' \in Forking => fds'[0] = Ends
        /\ pc' \in Waiting \/ (pc' = "done" /\ 0 \notin failed') => fds'[0] = {}
    BY <1>1, <1>6, Zenon DEF Descriptors
  <2>2. ASSUME NEW q \in Segs
        PROVE  /\ fds'[q] = IF state'[q] \in {"dup2", "close"} THEN Ends ELSE {}
               /\ in'[q] = IF state'[q] \in {"close", "run"} THEN q - 1 ELSE 0
               /\ out'[q] = IF state'[q] \in {"close", "run"} /\ q < nseg THEN q ELSE 0
    <3>1. CASE q = p
      BY <1>6, <3>1, Zenon
    <3>2. CASE q # p
      <4>1. state'[q] = state[q] /\ in'[q] = in[q] /\ out'[q] = out[q] /\ fds'[q] = fds[q]
        BY <1>6, <3>2, Zenon
      <4> QED
        BY <4>1, Zenon DEF Descriptors
    <3> QED
      BY <3>1, <3>2, Zenon
  <2> QED
    BY <2>1, <2>2, Zenon DEF Descriptors
<1>8. Drained'
  <2> SUFFICES ASSUME failed' = {}, \A q \in Segs : kind'[q] = "copy", NEW q \in Segs, state'[q] \in Over
               PROVE  hold'[q] = 0 /\ IF q = 1 THEN left' = 0 ELSE buf'[q - 1] = 0 /\ state'[q - 1] \in Over
    BY Zenon DEF Drained
  <2>1. hold[q] = 0 /\ IF q = 1 THEN left = 0 ELSE buf[q - 1] = 0 /\ state[q - 1] \in Over
    BY <1>1, <1>6, Zenon DEF Drained
  <2>2. q # 1 => q - 1 \in Segs
    BY PipelineAssumption DEF Segs
  <2>3. q # 1 => state'[q - 1] \in Over
    BY <1>6, <2>1, <2>2, Zenon DEF Over
  <2> QED
    BY <1>1, <2>1, <2>3, Zenon
<1> QED
  BY <1>2, <1>5, <1>7, <1>8, Zenon

\* Every child has all ends of the pipes until it closes them: the ends of the pipes
\* next to its stage are there to be duplicated.
LEMMA dup2Inv ==
  ASSUME Inv, NEW p \in Segs, dup2(p), at' = at
  PROVE  Inv'
<1> USE DEF Inv
<1>1. state[p] \in Live /\ state[p] = "dup2" /\ fds[p] = Ends
  BY Zenon DEF dup2, Live, Descriptors
<1>2. /\ p > 1 => <<p - 1, "r">> \in Ends
      /\ p < nseg => <<p, "w">> \in Ends
  BY PipelineAssumption DEF Ends, Pipes, Segs
<1>3. /\ state' = [state EXCEPT ![p] = "close"]
      /\ in' = [in EXCEPT ![p] = p - 1] /\ out' = [out EXCEPT ![p] = IF p < nseg THEN p ELSE 0]
      /\ UNCHANGED <<shell, status, kind, hold, left, fds, buf, failed>>
  BY <1>1, <1>2, Zenon DEF dup2
<1>4. /\ pc' = pc /\ i' = i /\ pids' = pids /\ status' = status /\ kind' = kind /\ hold' = hold /\ left' = left
      /\ fds' = fds /\ buf' = buf /\ failed' = failed
  BY <1>3, Zenon DEF shell
<1>5. Rest' /\ Stages' /\ Reaped'
  BY <1>1, <1>3, ChildStep, Zenon
<1>6. Types'
  <2>1. state' \in [Segs -> States]
    BY <1>3, Zenon DEF Types, States
  <2>2. p - 1 \in 0 .. nseg - 1 /\ (IF p < nseg THEN p ELSE 0) \in 0 .. nseg - 1
    BY PipelineAssumption DEF Segs
  <2>3. in' \in [Segs -> 0 .. nseg - 1] /\ out' \in [Segs -> 0 .. nseg - 1]
    BY <1>3, <2>2, Zenon DEF Types
  <2> QED
    BY <1>4, <2>1, <2>3, Zenon DEF Types
<1>7. /\ state'[p] = "close" /\ in'[p] = p - 1 /\ out'[p] = IF p < nseg THEN p ELSE 0
      /\ \A q \in Segs : q # p => state'[q] = state[q] /\ in'[q] = in[q] /\ out'[q] = out[q]
  BY <1>3, Zenon DEF Types
<1>8. Descriptors'
  BY <1>1, <1>4, <1>7 DEF Descriptors
<1>9. Drained'
  BY <1>1, <1>4, <1>7, PipelineAssumption DEF Drained, Over, Segs
<1> QED
  BY <1>5, <1>6, <1>8, <1>9, Zenon

\* The child keeps the two ends it has duplicated.
LEMMA close_allInv ==
  ASSUME Inv, NEW p \in Segs, close_all(p), at' = at
  PROVE  Inv'
<1> USE DEF Inv
<1>1. state[p] \in Live /\ state[p] = "close"
  BY Zenon DEF close_all, Live
<1>2. /\ state' = [state EXCEPT ![p] = "run"] /\ fds' = [fds EXCEPT ![p] = {}]
      /\ UNCHANGED <<shell, status, kind, hold, left, in, out, buf, failed>>
  BY Zenon DEF close_all
<1>3. /\ pc' = pc /\ i' = i /\ pids' = pids /\ status' = status /\ kind' = kind /\ hold' = hold /\ left' = left
      /\ in' = in /\ out' = out /\ buf' = buf /\ failed' = failed
  BY <1>2, Zenon DEF shell
<1>4. Rest' /\ Stages' /\ Reaped'
  BY <1>1, <1>2, ChildStep, Zenon
<1>5. p \in Procs /\ p # 0 /\ Segs \subseteq Procs /\ 0 \in Procs
  BY PipelineAssumption DEF Segs, Procs
<1>6. Types'
  <2>1. state' \in [Segs -> States] /\ fds' \in [Procs -> SUBSET Ends]
    BY <1>2, Zenon DEF Types, States
  <2> QED
    BY <1>3, <2>1, Zenon DEF Types
<1>7. /\ state'[p] = "run" /\ fds'[p] = {} /\ fds'[0] = fds[0]
      /\ \A q \in Segs : q # p => state'[q] = state[q] /\ fds'[q] = fds[q]
  BY <1>2, <1>5, Zenon DEF Types
<1>8. Descriptors'
  BY <1>1, <1>3, <1>7, Zenon DEF Descriptors
<1>9. Drained'
  BY <1>1, <1>3, <1>7, PipelineAssumption DEF Drained, Over, Segs
<1> QED
  BY <1>4, <1>6, <1>8, <1>9, Zenon

\* Reading takes an item from the pipe before the stage, or from the input of the
\* whole pipeline.
LEMMA readInv ==
  ASSUME Inv, NEW p \in Segs, read(p), at' = at
  PROVE  Inv'
<1> USE DEF Inv
<1>1. /\ state[p] = "run" /\ state[p] \in Live /\ hold' = [hold EXCEPT ![p] = 1]
      /\ UNCHANGED <<shell, state, status, kind, fds, in, out, failed>>
  BY Zenon DEF read, Live
<1>2. /\ pc' = pc /\ i' = i /\ pids' = pids /\ state' = state /\ status' = status /\ kind' = kind
      /\ fds' = fds /\ in' = in /\ out' = out /\ failed' = failed
  BY <1>1, Zenon DEF shell
<1>3. state' = [state EXCEPT ![p] = "run"]
  BY <1>1, <1>2, Zenon DEF Types
<1>4. Rest' /\ Stages' /\ Reaped'
  BY <1>1, <1>3, ChildStep, Zenon
<1>5. /\ in[p] = p - 1 /\ (p # 1 => p - 1 \in Pipes)
      /\ \/ p = 1 /\ left > 0 /\ left' = left - 1 /\ buf' = buf
         \/ p # 1 /\ buf[p - 1] > 0 /\ buf' = [buf EXCEPT ![p - 1] = @ - 1] /\ left' = left
  BY <1>1, PipelineAssumption DEF read, Descriptors, Segs, Pipes
<1>6. Types'
  <2>1. hold' \in [Segs -> {0, 1}]
    BY <1>1, Zenon DEF Types
  <2>2. left' \in Nat /\ buf' \in [Pipes -> Nat]
    BY <1>5 DEF Types
  <2> QED
    BY <1>2, <2>1, <2>2, Zenon DEF Types
<1>7. Descriptors'
  BY <1>2, Zenon DEF Descriptors
<1>8. Drained'
  <2> SUFFICES ASSUME failed' = {}, \A q \in Segs : kind'[q] = "copy", NEW q \in Segs, state'[q] \in Over
               PROVE  hold'[q] = 0 /\ IF q = 1 THEN left' = 0 ELSE buf'[q - 1] = 0 /\ state'[q - 1] \in Over
    BY Zenon DEF Drained
  <2>1. hold[q] = 0 /\ IF q = 1 THEN left = 0 ELSE buf[q - 1] = 0 /\ state[q - 1] \in Over
    BY <1>2, Zenon DEF Drained
  <2>2. q # p /\ (q # 1 => q - 1 \in Pipes)
    BY <1>1, <1>2, PipelineAssumption DEF Over, Segs, Pipes
  <2>3. hold'[q] = hold[q]
    BY <1>1, <2>2, Zenon DEF Types
  <2>4. IF q = 1 THEN left' = left ELSE buf'[q - 1] = buf[q - 1]
    BY <1>5, <2>2 DEF Types, Segs
  <2> QED
    BY <1>2, <2>1, <2>3, <2>4, Zenon
<1> QED
  BY <1>4, <1>6, <1>7, <1>8, Zenon

\* Writing adds an item to the pipe after the stage, whose reader has not ended if
\* the stages copy.
LEMMA writeInv ==
  ASSUME Inv, NEW p \in Segs, write(p), at' = at
  PROVE  Inv'
<1> USE DEF Inv
<1>1. /\ state[p] = "run" /\ state[p] \in Live /\ hold' = [hold EXCEPT ![p] = 0]
      /\ UNCHANGED <<shell, state, status, kind, left, fds, in, out, failed>>
  BY Zenon DEF write, Live
<1>2. /\ pc' = pc /\ i' = i /\ pids' = pids /\ state' = state /\ status' = status /\ kind' = kind
      /\ left' = left /\ fds' = fds /\ in' = in /\ out' = out /\ failed' = failed
  BY <1>1, Zenon DEF shell
<1>3. state' = [state EXCEPT ![p] = "run"]
  BY <1>1, <1>2 DEF Types
<1>4. Rest' /\ Stages' /\ Reaped'
  BY <1>1, <1>3, ChildStep, Zenon
<1>5. /\ p < nseg => p \in Pipes
      /\ \/ buf' = buf
         \/ p < nseg /\ buf' = [buf EXCEPT ![p] = @ + 1]
  BY <1>1, PipelineAssumption DEF write, Descriptors, Segs, Pipes
<1>6. Types'
  <2>1. hold' \in [Segs -> {0, 1}]
    BY <1>1, Zenon DEF Types
  <2>2. buf' \in [Pipes -> Nat]
    BY <1>5 DEF Types
  <2> QED
    BY <1>2, <2>1, <2>2, Zenon DEF Types
<1>7. Descriptors'
  BY <1>2, Zenon DEF Descriptors
<1>8. Drained'
  <2> SUFFICES ASSUME failed' = {}, \A q \in Segs : kind'[q] = "copy", NEW q \in Segs, state'[q] \in Over
               PROVE  hold'[q] = 0 /\ IF q = 1 THEN left' = 0 ELSE buf'[q - 1] = 0 /\ state'[q - 1] \in Over
    BY Zenon DEF Drained
  <2>1. hold[q] = 0 /\ IF q = 1 THEN left = 0 ELSE buf[q - 1] = 0 /\ state[q - 1] \in Over
    BY <1>2, Zenon DEF Drained
  <2>2. q # p /\ (q # 1 => q - 1 \in Pipes /\ q - 1 # p)
    BY <1>1, <1>2, <2>1, PipelineAssumption DEF Over, Segs, Pipes
  <2>3. hold'[q] = hold[q]
    BY <1>1, <2>2, Zenon DEF Types
  <2>4. q # 1 => buf'[q - 1] = buf[q - 1]
    BY <1>5, <2>2, Zenon DEF Types, Segs
  <2> QED
    BY <1>2, <2>1, <2>3, <2>4, Zenon
<1> QED
  BY <1>4, <1>6, <1>7, <1>8, Zenon

\* Once nobody but the stages next to it can have a pipe open, the shell has forked
\* them all.
LEMMA Closed ==
  ASSUME Inv, NEW p \in Segs, state[p] \in Live, failed = {}, NEW e \in Ends, e \notin fds[0]
  PROVE  \A q \in Segs : state[q] # "none"
<1>1. pc \in {"fork", "close", "wait"}
  BY LiveIs, Zenon
<1>2. pc = "wait"
  BY <1>1, Zenon DEF Inv, Descriptors, Forking
<1> QED
  BY <1>2, Zenon DEF Inv, Stages, Tried, Waiting

\* A stage that copies is never ended by SIGPIPE: the next one outlives it.
LEMMA sigpipeInv ==
  ASSUME Inv, NEW p \in Segs, sigpipe(p), at' = at
  PROVE  Inv'
<1> USE DEF Inv
<1>1. state[p] = "run" /\ state[p] \in Live /\ Exits(p, 141) /\ 141 \in Int
  BY DEF sigpipe, Live
<1>2. out[p] = p /\ p < nseg /\ Readers(p) = {}
  BY <1>1, Zenon DEF sigpipe, Descriptors
<1>3. p + 1 \in Segs /\ p \in Pipes /\ <<p, "r">> \in Ends /\ 0 \in Procs /\ p + 1 \in Procs
  BY <1>2, PipelineAssumption DEF Segs, Pipes, Ends, Procs
<1>4. <<p, "r">> \notin fds[0] /\ <<p, "r">> \notin fds[p + 1] /\ in[p + 1] # p
  BY <1>2, <1>3, Zenon DEF Readers
<1>5. state[p + 1] \notin Live
  BY <1>3, <1>4 DEF Descriptors, Live, Segs
<1>6. ~ (failed = {} /\ \A q \in Segs : kind[q] = "copy")
  <2> SUFFICES ASSUME failed = {}, \A q \in Segs : kind[q] = "copy" PROVE FALSE
    BY Zenon
  <2>1. state[p + 1] # "none"
    BY <1>1, <1>3, <1>4, Closed
  <2>2. state[p + 1] \in Over
    BY <1>3, <1>5, <2>1 DEF Types, States, Live, Over
  <2>3. state[(p + 1) - 1] \in Over /\ p + 1 # 1
    BY <1>3, <2>2 DEF Drained, Segs
  <2> QED
    BY <1>1, <2>3 DEF Over, Segs
<1> QED
  BY <1>1, <1>6, ExitsInv

\* A command that copies exits when its input is used up: the pipe before it is
\* empty and the stage that fills it has ended.
LEMMA exitInv ==
  ASSUME Inv, NEW p \in Segs, exit(p), at' = at
  PROVE  Inv'
<1> USE DEF Inv
<1>1. state[p] = "run" /\ state[p] \in Live /\ hold[p] = 0 /\ in[p] = p - 1
  BY Zenon DEF exit, Live, Descriptors
<1>2. PICK st \in Statuses(kind[p]) : Exits(p, st)
  BY Zenon DEF exit
<1>3. st \in Int
  BY DEF Types, Statuses, Kinds
<1>4. ASSUME failed = {}, \A q \in Segs : kind[q] = "copy"
      PROVE  IF p = 1 THEN left = 0 ELSE buf[p - 1] = 0 /\ state[p - 1] \in Over
  <2>1. CASE p = 1
    BY <1>1, <1>4, <2>1 DEF exit
  <2>2. CASE p # 1
    <3>1. p - 1 # 0 /\ buf[p - 1] = 0 /\ Writers(p - 1) = {}
      BY <1>1, <1>4, <2>2 DEF exit, Segs
    <3>2. p - 1 \in Segs /\ p - 1 \in Pipes /\ <<p - 1, "w">> \in Ends /\ 0 \in Procs /\ p - 1 \in Procs /\ p - 1 < nseg
      BY <2>2, PipelineAssumption DEF Segs, Pipes, Ends, Procs
    <3>3. <<p - 1, "w">> \notin fds[0] /\ <<p - 1, "w">> \notin fds[p - 1] /\ out[p - 1] # p - 1
      BY <3>1, <3>2, Zenon DEF Writers
    <3>4. state[p - 1] # "none"
      BY <1>1, <1>4, <3>2, <3>3, Closed, Zenon
    <3>5. state[p - 1] \notin Live
      BY <3>2, <3>3, Zenon DEF Descriptors, Live
    <3>6. state[p - 1] \in Over
      BY <3>2, <3>4, <3>5 DEF Types, States, Live, Over
    <3> QED
      BY <2>2, <3>1, <3>6, Zenon
  <2> QED
    BY <2>1, <2>2, Zenon
<1> QED
  BY <1>1, <1>2, <1>3, <1>4, ExitsInv, Zenon

\* So every step of a child keeps the invariant.
LEMMA ChildInv ==
  ASSUME Inv, NEW p \in Segs, Child(p), at' = at
  PROVE  Inv'
  BY dup2Inv, close_allInv, readInv, writeInv, sigpipeInv, exitInv DEF Child

------------------------------------------------------------------------------
(* The shell                                                                *)

\* Each pipe() that succeeds adds its two ends to the shell's descriptors.
LEMMA pipeInv ==
  ASSUME Inv, pipe, at' = at
  PROVE  Inv'
<1> USE DEF Inv
<1>1. /\ pc = "pipe" /\ failed = {} /\ fds[0] = (1 .. i - 1) \X {"r", "w"} /\ at = "pipeline"
      /\ \A p \in Segs : state[p] = "none" /\ fds[p] = {}
  BY Zenon DEF pipe, Stages, Tried, Descriptors, Waiting, Rest
<1>2. /\ pids' = pids /\ last_pid' = last_pid /\ status_last' = status_last /\ state' = state
      /\ status' = status /\ kind' = kind /\ hold' = hold /\ left' = left /\ in' = in /\ out' = out
      /\ buf' = buf
  BY Zenon DEF pipe, child
<1>3. Drained'
  BY <1>1, <1>2 DEF Drained, Over
<1>4. 0 \in Procs /\ Segs \subseteq Procs /\ 0 \notin Segs
  BY PipelineAssumption DEF Procs, Segs
<1>5. CASE /\ i <= nseg - 1
           /\ fds' = [fds EXCEPT ![0] = @ \cup ({i} \X {"r", "w"})] /\ i' = i + 1
           /\ UNCHANGED <<pc, rc, failed>>
  <2>1. fds'[0] = fds[0] \cup ({i} \X {"r", "w"}) /\ \A p \in Segs : fds'[p] = fds[p]
    BY <1>4, <1>5, Zenon DEF Types
  <2>2. i' \in Segs /\ i' - 1 = i /\ i \in Pipes
    BY <1>5, PipelineAssumption DEF Types, Segs, Pipes
  <2>3. fds'[0] = (1 .. i' - 1) \X {"r", "w"}
    <3>1. 1 .. i' - 1 = (1 .. i - 1) \cup {i}
      <4>1. \A n \in Nat : n >= 1 => 1 .. n = (1 .. n - 1) \cup {n}
        OBVIOUS
      <4> QED
        BY <2>2, <4>1, PipelineAssumption DEF Pipes
    <3>2. \A A, B, C : (A \X C) \cup (B \X C) = (A \cup B) \X C
      BY Zenon
    <3> QED
      BY <1>1, <2>1, <3>1, <3>2, Zenon
  <2>4. Types'
    <3>1. fds' \in [Procs -> SUBSET Ends]
      BY <1>4, <1>5, <2>2 DEF Types, Ends
    <3> QED
      BY <1>2, <1>5, <2>2, <3>1, Zenon DEF Types
  <2>5. Descriptors'
    BY <1>1, <1>2, <1>5, <2>1, <2>3, Zenon DEF Descriptors, Forking, Waiting
  <2>6. Stages' /\ Reaped' /\ Rest'
    BY <1>1, <1>2, <1>5 DEF Stages, Tried, Reaped, Rest, Waiting
  <2> QED
    BY <1>3, <2>4, <2>5, <2>6, Zenon
<1>6. CASE rc' = 1 /\ pc' = "done" /\ failed' = failed \cup {0} /\ UNCHANGED <<i, fds>>
  <2>1. Types'
    BY <1>2, <1>4, <1>6 DEF Types
  <2>2. Descriptors'
    BY <1>1, <1>2, <1>6 DEF Descriptors, Forking, Waiting
  <2>3. Stages' /\ Reaped' /\ Rest'
    BY <1>1, <1>2, <1>4, <1>6 DEF Stages, Tried, Reaped, Rest, Waiting
  <2> QED
    BY <1>3, <2>1, <2>2, <2>3, Zenon
<1>7. CASE i = nseg /\ pc' = "fork" /\ i' = 1 /\ UNCHANGED <<rc, fds, failed>>
  <2>1. fds[0] = Ends /\ 1 \in Segs
    BY <1>1, <1>7, PipelineAssumption DEF Ends, Pipes, Segs
  <2>2. Types'
    BY <1>2, <1>7, <2>1, Zenon DEF Types, Forking
  <2>3. Descriptors'
    BY <1>1, <1>2, <1>7, <2>1, Zenon DEF Descriptors, Forking, Waiting
  <2>4. \A p \in Segs : ~ Tried(p)'
    BY <1>7 DEF Tried, Segs, Waiting
  <2>5. nseg \in Segs
    BY PipelineAssumption DEF Segs
  <2>6. Stages' /\ Reaped' /\ Rest'
    BY <1>1, <1>2, <1>7, <2>4, <2>5 DEF Stages, Reaped, Rest, Waiting
  <2> QED
    BY <1>3, <2>2, <2>3, <2>6, Zenon
<1> QED
  BY <1>5, <1>6, <1>7 DEF pipe

\* A fork makes the next stage's process, with the shell's descriptors, or fails.
LEMMA forkInv ==
  ASSUME Inv, fork, at' = at
  PROVE  Inv'
<1> USE DEF Inv
<1>1. /\ pc = "fork" /\ i \in Segs /\ ~ Tried(i) /\ state[i] = "none" /\ i \notin failed /\ fds[0] = Ends
      /\ at = "pipeline" /\ 0 \notin failed /\ nseg \in Segs /\ fds[i] = {} /\ in[i] = 0 /\ out[i] = 0
  <2>1. pc = "fork" /\ i \in Segs /\ 0 \notin failed /\ nseg \in Segs
    BY PipelineAssumption DEF fork, Types, Stages, Segs
  <2>2. ~ Tried(i)
    BY <2>1 DEF Tried, Waiting, Segs
  <2>3. state[i] = "none" /\ i \notin failed
    BY <2>1, <2>2, Zenon DEF Stages
  <2> QED
    BY <2>1, <2>2, <2>3 DEF Descriptors, Forking, Rest
<1>2. /\ status_last' = status_last /\ status' = status /\ kind' = kind /\ hold' = hold /\ left' = left
      /\ in' = in /\ out' = out /\ buf' = buf
  BY Zenon DEF fork
<1>3. /\ pc' \in {"fork", "close"} /\ i' \in Segs /\ (pc' = "close" => i' = 1)
      /\ \A p \in Segs : Tried(p)' <=> Tried(p) \/ p = i
  BY <1>1, PipelineAssumption DEF fork, Advance, Tried, Segs, Waiting
<1>4. i \in Procs /\ i # 0 /\ 0 \in Procs /\ Segs \subseteq Procs
  BY <1>1, PipelineAssumption DEF Procs, Segs
<1>5. CASE /\ state' = [state EXCEPT ![i] = "dup2"] /\ fds' = [fds EXCEPT ![i] = fds[0]]
           /\ pids' = [pids EXCEPT ![i] = i] /\ last_pid' = IF i = nseg THEN i ELSE last_pid
           /\ UNCHANGED <<rc, failed>>
  <2>1. /\ state'[i] = "dup2" /\ fds'[i] = Ends /\ pids'[i] = i /\ fds'[0] = fds[0]
        /\ \A q \in Segs : q # i => state'[q] = state[q] /\ fds'[q] = fds[q] /\ pids'[q] = pids[q]
    BY <1>1, <1>4, <1>5, Zenon DEF Types
  <2>2. Types'
    <3>1. state' \in [Segs -> States] /\ pids' \in [Segs -> Int]
      BY <1>1, <1>5 DEF Types, States, Segs
    <3>2. fds' \in [Procs -> SUBSET Ends]
      BY <1>1, <1>4, <1>5, Zenon DEF Types
    <3> QED
      BY <1>2, <1>3, <1>5, <3>1, <3>2 DEF Types, Forking
  <2>3. Descriptors'
    <3>1. \A q \in Segs :
            /\ fds'[q] = IF state'[q] \in {"dup2", "close"} THEN Ends ELSE {}
            /\ in'[q] = IF state'[q] \in {"close", "run"} THEN q - 1 ELSE 0
            /\ out'[q] = IF state'[q] \in {"close", "run"} /\ q < nseg THEN q ELSE 0
      BY <1>1, <1>2, <2>1, Zenon DEF Descriptors
    <3> QED
      BY <1>1, <1>3, <2>1, <3>1, Zenon DEF Descriptors, Forking, Waiting
  <2>4. Stages'
    BY <1>1, <1>3, <1>5, <2>1 DEF Stages
  <2>5. Reaped' /\ Rest'
    BY <1>1, <1>3, <2>1 DEF Reaped, Rest, Waiting
  <2>6. Drained'
    BY <1>1, <1>2, <1>5, <2>1 DEF Drained, Over
  <2> QED
    BY <2>2, <2>3, <2>4, <2>5, <2>6, Zenon
<1>6. ASSUME NEW g \in Garbage, pids' = [pids EXCEPT ![i] = g], failed' = failed \cup {i},
             UNCHANGED <<state, fds, last_pid>>
      PROVE  Inv'
  <2>1. pids'[i] = g /\ \A q \in Segs : q # i => pids'[q] = pids[q]
    BY <1>1, <1>6, Zenon DEF Types
  <2>2. Types'
    <3>1. pids' \in [Segs -> Int]
      BY <1>6, PipelineAssumption DEF Types
    <3> QED
      BY <1>2, <1>3, <1>4, <1>6, <3>1, Zenon DEF Types, Forking
  <2>3. Descriptors'
    BY <1>1, <1>2, <1>3, <1>6 DEF Descriptors, Forking, Waiting
  <2>4. Stages'
    BY <1>1, <1>3, <1>4, <1>6, <2>1 DEF Stages
  <2>5. Reaped' /\ Rest'
    BY <1>1, <1>3, <1>6 DEF Reaped, Rest, Waiting
  <2>6. Drained'
    BY <1>6 DEF Drained
  <2> QED
    BY <2>2, <2>3, <2>4, <2>5, <2>6, Zenon
<1> QED
  BY <1>5, <1>6 DEF fork

\* The shell gives up its ends of the pipes before it waits.
LEMMA closeInv ==
  ASSUME Inv, close, at' = at
  PROVE  Inv'
<1> USE DEF Inv
<1>1. /\ pc = "close" /\ pc' = "wait" /\ fds' = [fds EXCEPT ![0] = {}] /\ i = 1 /\ at = "pipeline"
      /\ 0 \notin failed
  BY Zenon DEF close, Reaped, Rest, Stages
<1>2. /\ i' = i /\ pids' = pids /\ last_pid' = last_pid /\ state' = state /\ status' = status /\ kind' = kind
      /\ hold' = hold /\ left' = left /\ in' = in /\ out' = out /\ buf' = buf /\ failed' = failed
  BY Zenon DEF close, child
<1>3. 0 \in Procs /\ Segs \subseteq Procs /\ 0 \notin Segs /\ nseg \in Segs
  BY PipelineAssumption DEF Procs, Segs
<1>4. fds'[0] = {} /\ \A p \in Segs : fds'[p] = fds[p]
  BY <1>1, <1>3 DEF Types
<1>5. Types'
  <2>1. fds' \in [Procs -> SUBSET Ends]
    BY <1>1, <1>3, Zenon DEF Types
  <2> QED
    BY <1>1, <1>2, <2>1 DEF Types, Waiting
<1>6. Descriptors'
  BY <1>1, <1>2, <1>4 DEF Descriptors, Forking
<1>7. \A p \in Segs : Tried(p) /\ Tried(p)'
  BY <1>1, Zenon DEF Tried, Waiting
<1>8. Stages'
  BY <1>1, <1>2, <1>3, <1>7 DEF Stages
<1>9. Reaped' /\ Rest'
  BY <1>1, <1>2 DEF Reaped, Rest, Waiting, Segs
<1>10. Drained'
  BY <1>2, Zenon DEF Drained
<1> QED
  BY <1>5, <1>6, <1>8, <1>9, <1>10, Zenon

\* A wait on the number of a stage's process reaps this stage.  The waits on what a
\* failed fork has left in pids[] reap any other or none.
LEMMA waitpidInv ==
  ASSUME Inv, waitpid, at' = at
  PROVE  Inv'
<1> USE DEF Inv
<1>1. /\ pc = "wait" /\ at = "pipeline" /\ 0 \notin failed /\ i \in Segs /\ nseg \in Segs
      /\ \A p \in Segs : Tried(p)
  BY PipelineAssumption DEF waitpid, Rest, Stages, Types, Tried, Waiting, Segs
<1>2. /\ pids' = pids /\ last_pid' = last_pid /\ rc' = rc /\ status' = status /\ kind' = kind /\ hold' = hold
      /\ left' = left /\ fds' = fds /\ in' = in /\ out' = out /\ buf' = buf /\ failed' = failed
  BY Zenon DEF waitpid, io
<1>3. /\ pc' \in Waiting /\ i' \in Segs /\ (pc' = "status" => i = nseg)
      /\ pc' = "wait" => \A p \in Segs : p < i' <=> p < i \/ p = i
      /\ pc' = "status" => \A p \in Segs : p < i \/ p = i
  BY <1>1, PipelineAssumption DEF waitpid, Waiting, Segs
<1>4. i \notin failed => Children(pids[i]) = {i}
  BY <1>1 DEF Stages, Children, Segs
<1>5. PICK st, r : /\ GotStatus(st)
                   /\ \/ r \in Zombies(pids[i]) /\ state' = [state EXCEPT ![r] = "reaped"] /\ st = status[r]
                      \/ r = 0 /\ Zombies(pids[i]) = {} /\ Alive(pids[i]) = {} /\ state' = state
  BY Zenon DEF waitpid
<1>6. /\ state' \in [Segs -> States]
      /\ \A p \in Segs : state'[p] = IF p = r THEN "reaped" ELSE state[p]
      /\ r \in Segs => state[r] = "zombie"
  <2>1. 0 \notin Segs /\ "reaped" \in States /\ state \in [Segs -> States]
    BY DEF Segs, States, Types
  <2>2. r \in Zombies(pids[i]) => r \in Segs /\ state[r] = "zombie"
    BY Zenon DEF Zombies, Children
  <2> QED
    BY <1>5, <2>1, <2>2, Zenon
<1>7. state'[i] \in {"none", "reaped"}
  <2>1. CASE i \in failed
    BY <1>1, <1>6, <2>1 DEF Stages
  <2>2. CASE i \notin failed
    BY <1>1, <1>4, <1>5, <1>6, <2>2 DEF Zombies, Alive, Types, States
  <2> QED
    BY <2>1, <2>2, Zenon
<1>8. failed = {} => r = i
  <2> SUFFICES ASSUME failed = {}, r # i PROVE FALSE
    BY Zenon
  <2>1. r = 0 /\ Zombies(pids[i]) = {} /\ Alive(pids[i]) = {}
    BY <1>4, <1>5 DEF Zombies
  <2>2. state[i] # "none" /\ state[i] # "reaped"
    BY <1>1 DEF Stages, Reaped, Segs
  <2> QED
    BY <1>1, <1>4, <2>1, <2>2, Zenon DEF Zombies, Alive
<1>9. Types'
  BY <1>2, <1>3, <1>6, Zenon DEF Types
<1>10. Descriptors'
  <2>1. \A p \in Segs : /\ state'[p] \in {"dup2", "close"} <=> state[p] \in {"dup2", "close"}
                        /\ state'[p] \in {"close", "run"} <=> state[p] \in {"close", "run"}
    BY <1>6, Zenon
  <2>2. fds[0] = {} /\ pc' # "pipe" /\ pc' \notin Forking
    BY <1>1, <1>3 DEF Descriptors, Forking, Waiting
  <2> QED
    BY <1>2, <2>1, <2>2, Zenon DEF Descriptors
<1>11. Stages'
  <2>1. \A p \in Segs : Tried(p)' /\ (state'[p] = "none" <=> state[p] = "none")
    BY <1>3, <1>6 DEF Tried
  <2> QED
    BY <1>1, <1>2, <1>3, <2>1 DEF Stages, Waiting
<1>12. Reaped'
  <2>1. \A p \in Segs : p < i \/ p = i => state'[p] \in {"none", "reaped"}
    BY <1>1, <1>6, <1>7 DEF Reaped
  <2>2. failed = {} => \A p \in Segs : state'[p] = "reaped" => p < i \/ p = i
    BY <1>1, <1>6, <1>8 DEF Reaped
  <2>3. pc' = "status" /\ failed = {} => status_last' = status'[nseg]
    <3> SUFFICES ASSUME pc' = "status", failed = {} PROVE status_last' = status[nseg]
      BY <1>2, Zenon
    <3>1. r = i /\ i = nseg /\ nseg \in Segs /\ nseg # 0
      BY <1>1, <1>3, <1>8, PipelineAssumption DEF Segs
    <3>2. Tried(nseg) /\ nseg \notin failed
      BY <1>1, Zenon
    <3>3. pids[nseg] = nseg /\ last_pid = nseg
      BY <3>1, <3>2, Zenon DEF Stages
    <3>4. st = status[nseg]
      BY <1>5, <3>1, Zenon
    <3>5. GotStatus(st)
      BY <1>5, Zenon
    <3> QED
      BY <3>1, <3>3, <3>4, <3>5, Zenon DEF GotStatus
  <2> QED
    BY <1>2, <1>3, <2>1, <2>2, <2>3 DEF Reaped, Waiting
<1>13. Rest'
  BY <1>1, <1>3, Zenon DEF Rest, Waiting
<1>14. Drained'
  <2> SUFFICES ASSUME failed' = {}, \A q \in Segs : kind'[q] = "copy", NEW q \in Segs, state'[q] \in Over
               PROVE  hold'[q] = 0 /\ IF q = 1 THEN left' = 0 ELSE buf'[q - 1] = 0 /\ state'[q - 1] \in Over
    BY Zenon DEF Drained
  <2>1. state[q] \in Over
    BY <1>6, Zenon DEF Over
  <2>2. hold[q] = 0 /\ IF q = 1 THEN left = 0 ELSE buf[q - 1] = 0 /\ state[q - 1] \in Over
    BY <1>2, <2>1 DEF Drained
  <2>3. q # 1 => q - 1 \in Segs
    BY PipelineAssumption DEF Segs
  <2>4. q # 1 => state'[q - 1] \in Over
    BY <1>6, <2>2, <2>3, Zenon DEF Over
  <2> QED
    BY <1>2, <2>2, <2>4, Zenon
<1> QED
  BY <1>9, <1>10, <1>11, <1>12, <1>13, <1>14

\* rc is taken from the status that was kept.
LEMMA set_rcInv ==
  ASSUME Inv, set_rc, at' = at
  PROVE  Inv'
<1> USE DEF Inv
<1>1. pc = "status" /\ pc' = "done" /\ at = "pipeline" /\ 0 \notin failed /\ rc' = IF status_last = 0 THEN 0 ELSE 1
  BY Zenon DEF set_rc, Rest, Stages
<1>2. /\ i' = i /\ pids' = pids /\ last_pid' = last_pid /\ status_last' = status_last /\ state' = state
      /\ status' = status /\ kind' = kind /\ hold' = hold /\ left' = left /\ fds' = fds /\ in' = in /\ out' = out
      /\ buf' = buf /\ failed' = failed
  BY Zenon DEF set_rc, child, io
<1>3. Types' /\ Drained'
  BY <1>1, <1>2, Zenon DEF Types, Drained
<1>4. Descriptors'
  BY <1>1, <1>2 DEF Descriptors, Forking, Waiting
<1>5. \A p \in Segs : Tried(p) /\ Tried(p)'
  BY <1>1, <1>2 DEF Tried, Waiting
<1>6. nseg \in Segs
  BY PipelineAssumption DEF Segs
<1>7. Stages'
  BY <1>1, <1>2, <1>5, <1>6 DEF Stages
<1>8. Reaped' /\ Rest'
  BY <1>1, <1>2 DEF Reaped, Rest, Waiting
<1> QED
  BY <1>3, <1>4, <1>7, <1>8, Zenon

\* So every step of the shell in a pipeline keeps the invariant.
LEMMA ParentInv ==
  ASSUME Inv, Parent, at' = at
  PROVE  Inv'
  BY pipeInv, forkInv, closeInv, waitpidInv, set_rcInv DEF Parent

------------------------------------------------------------------------------
(* Lines                                                                    *)

\* Between two pipelines
LEMMA IdleIs == Idle => Types /\ Descriptors /\ Stages /\ Reaped /\ Drained
<1> SUFFICES ASSUME Idle PROVE Types /\ Descriptors /\ Stages /\ Reaped /\ Drained
  BY Zenon
<1>1. /\ pc = "idle" /\ i = 1 /\ failed = {} /\ left = Items /\ Items \in Nat
      /\ nseg \in Nat /\ nseg >= 2 /\ Segs \subseteq Procs /\ nseg \in Segs /\ 1 \in Segs
  BY PipelineAssumption DEF Idle, Segs, Procs
<1>2. \A p \in Segs : /\ state[p] = "none" /\ fds[p] = {} /\ in[p] = 0 /\ out[p] = 0
  BY <1>1, Zenon DEF Idle
<1>3. Types
  <2>1. /\ pids \in [Segs -> Int] /\ state \in [Segs -> States] /\ status \in [Segs -> Int]
        /\ kind \in [Segs -> Kinds] /\ hold \in [Segs -> {0, 1}] /\ buf \in [Pipes -> Nat]
    BY DEF Idle, States, Kinds
  <2>2. 0 \in 0 .. nseg - 1
    BY <1>1
  <2>3. fds \in [Procs -> SUBSET Ends] /\ in \in [Segs -> 0 .. nseg - 1] /\ out \in [Segs -> 0 .. nseg - 1]
    BY <2>2 DEF Idle
  <2> QED
    BY <1>1, <2>1, <2>3 DEF Types
<1>4. Descriptors
  BY <1>1, <1>2 DEF Descriptors, Forking, Waiting
<1>5. Stages /\ Reaped /\ Drained
  BY <1>1, <1>2 DEF Stages, Tried, Reaped, Drained, Waiting, Over
<1> QED
  BY <1>3, <1>4, <1>5

\* run_line() calls run_pipeline().
LEMMA StartInv ==
  ASSUME Inv, StartPipeline
  PROVE  Inv'
<1> USE DEF Inv
<1> DEFINE ks == [p \in Segs |-> KindOf(Argv(p))]
<1>1. \A a : KindOf(a) \in Kinds
  BY Zenon DEF KindOf, Kinds
<1>2. ks \in [Segs -> Kinds]
  BY <1>1, Zenon
<1>3. run_pipeline(ks) /\ at' = "pipeline"
  BY Zenon DEF StartPipeline
<1> HIDE DEF ks
<1>4. /\ pc = "idle" /\ pc' = "pipe" /\ kind' = ks
      /\ UNCHANGED <<i, pids, last_pid, status_last, rc, state, status, hold, left, fds, in, out, buf, failed>>
  BY <1>3 DEF run_pipeline, io
<1>5. Idle
  BY <1>4, Zenon DEF Rest
<1>6. Types'
  BY <1>2, <1>4 DEF Types
<1>7. fds'[0] = {} /\ i' = 1 /\ failed' = {} /\ \A p \in Segs : state'[p] = "none"
  BY <1>4, <1>5, PipelineAssumption DEF Idle, Procs
<1>8. Descriptors'
  <2>1. (1 .. i' - 1) \X {"r", "w"} = {}
    BY <1>7
  <2> QED
    BY <1>4, <1>7, <2>1 DEF Descriptors, Forking, Waiting
<1>9. Stages' /\ Reaped' /\ Drained' /\ Rest'
  BY <1>3, <1>4, <1>7, Zenon DEF Stages, Tried, Reaped, Drained, Rest, Waiting, Over
<1> QED
  BY <1>6, <1>8, <1>9

\* run_pipeline() returns.
LEMMA EndInv ==
  ASSUME EndPipeline
  PROVE  Inv'
<1>1. Idle' /\ pc' = "idle"
  BY Zenon DEF EndPipeline, Return, Idle
<1>2. (Idle => Types /\ Descriptors /\ Stages /\ Reaped /\ Drained)'
  BY IdleIs, PTL
<1>3. Rest'
  BY <1>1, Zenon DEF Rest
<1> QED
  BY <1>1, <1>2, <1>3, Zenon DEF Inv

\* Lines that are no pipelines change rc only when no pipeline runs.
LEMMA LineInv ==
  ASSUME Inv, NoPipeline, pc = "idle" \/ (rc' = rc /\ at' = at)
  PROVE  Inv'
<1> USE DEF Inv
<1>1. /\ pc' = pc /\ i' = i /\ pids' = pids /\ last_pid' = last_pid /\ status_last' = status_last
      /\ state' = state /\ status' = status /\ kind' = kind /\ hold' = hold /\ left' = left
      /\ fds' = fds /\ in' = in /\ out' = out /\ buf' = buf /\ failed' = failed
  BY Zenon DEF NoPipeline, child, io
<1>2. Types' /\ Descriptors' /\ Drained'
  BY <1>1, Zenon DEF Types, Descriptors, Drained
<1>3. \A p \in Segs : Tried(p)' <=> Tried(p)
  BY <1>1, Zenon DEF Tried
<1>4. nseg \in Segs
  BY PipelineAssumption DEF Segs
<1>5. Stages'
  BY <1>1, <1>3, <1>4 DEF Stages
<1>6. Reaped'
  BY <1>1, Zenon DEF Reaped, Waiting
<1>7. Rest'
  BY <1>1, Zenon DEF Rest, Idle
<1> QED
  BY <1>2, <1>5, <1>6, <1>7

\* Every step of wsh keeps the invariant.
LEMMA NextInv ==
  ASSUME Inv, [ShellNext]_allvars
  PROVE  Inv'
<1>1. ASSUME UNCHANGED vars, pc = "idle" \/ at' = at PROVE Inv'
  BY <1>1, LineInv DEF vars, shell, NoPipeline
<1>2. ASSUME at = "read" PROVE pc = "idle"
  BY <1>2, Zenon DEF Inv, Rest
<1>3. ASSUME NEW x, NEW c, ReadLine(x, c) PROVE Inv'
  BY <1>1, <1>3 DEF ReadLine
<1>4. CASE clean_exit
  BY <1>1, <1>2, <1>4 DEF clean_exit, Single, Running
<1>5. CASE TooMany \/ Blank \/ try_run_builtin \/ run_external \/ BadPipeline
  <2>1. at = "read" /\ NoPipeline
    BY <1>5 DEF TooMany, Blank, try_run_builtin, run_external, BadPipeline, Single, Running
  <2> QED
    BY <1>2, <2>1, LineInv
<1>6. CASE Fault
  BY <1>1, <1>2, <1>6 DEF Fault, Single, Running
<1>7. CASE Pipelines
  BY <1>7, ParentInv, ChildInv DEF Pipelines, lines
<1>8. CASE UNCHANGED allvars
  BY <1>1, <1>8 DEF allvars, lines
<1>9. CASE run_line
  BY <1>5, <1>6, <1>9, StartInv, EndInv DEF run_line
<1> QED
  BY <1>3, <1>4, <1>7, <1>8, <1>9 DEF ShellNext

------------------------------------------------------------------------------
(* Theorems                                                                 *)

\* However many stages a pipeline has and whichever of its forks fail, the shell,
\* its descriptors and its children are as Inv says.
THEOREM Inductive == ShellSpec => []Inv
<1>1. ShellInit => Inv
  BY IdleIs DEF ShellInit, Inv, Rest, Idle
<1> QED
  BY <1>1, NextInv, PTL DEF ShellSpec

\* Of a pipe between two stages nobody else has an end once the shell waits: a
\* reader sees the end of its input, a writer that nobody reads.
THEOREM PipesConnected == ShellSpec => []TwoHolders
<1>1. ASSUME Inv PROVE TwoHolders
  <2> USE DEF Inv
  <2> SUFFICES ASSUME pc \in {"wait", "status", "done"}, 0 \notin failed,
                      \A p \in Segs : state[p] \notin {"dup2", "close"}, NEW k \in Pipes
               PROVE  Writers(k) \subseteq {k} /\ Readers(k) \subseteq {k + 1}
    BY Zenon DEF TwoHolders
  <2>1. \A p \in Procs : fds[p] = {}
    <3>1. fds[0] = {} /\ \A p \in Segs : fds[p] = {}
      BY <1>1, Zenon DEF Descriptors, Waiting
    <3>2. Procs = {0} \cup Segs
      BY PipelineAssumption DEF Procs, Segs
    <3> QED
      BY <3>1, <3>2, Zenon
  <2>2. \A p \in Segs : in[p] \in {0, p - 1} /\ out[p] \in {0, p}
    BY <1>1, Zenon DEF Descriptors
  <2> QED
    BY <2>1, <2>2 DEF Writers, Readers, Pipes, Segs
<1> QED
  BY <1>1, Inductive, PTL

\* When a pipeline returns no child is left, rc is the last stage's, and commands that
\* copy have passed on everything.
THEOREM PipelineOutcome == ShellSpec => []Outcome
<1>1. ASSUME Inv PROVE Outcome
  <2> USE DEF Inv
  <2> SUFFICES ASSUME pc = "done" PROVE Outcome
    BY Zenon DEF Outcome
  <2>1. \A p \in Segs : state[p] \in {"none", "reaped"}
    BY <1>1, Zenon DEF Reaped
  <2>2. failed = {} => (rc = 0 <=> status[nseg] = 0)
    BY <1>1, Zenon DEF Reaped
  <2>3. ASSUME failed = {}, \A p \in Segs : kind[p] = "copy"
        PROVE  left = 0 /\ (\A k \in Pipes : buf[k] = 0) /\ \A p \in Segs : hold[p] = 0
    <3>1. \A p \in Segs : state[p] \in Over
      BY <1>1, <2>1, <2>3, Zenon DEF Stages, Tried, Over
    <3>2. \A p \in Segs : hold[p] = 0 /\ IF p = 1 THEN left = 0 ELSE buf[p - 1] = 0
      BY <1>1, <2>3, <3>1, Zenon DEF Drained
    <3>3. 1 \in Segs /\ \A k \in Pipes : k + 1 \in Segs /\ k + 1 # 1 /\ (k + 1) - 1 = k
      BY PipelineAssumption DEF Segs, Pipes
    <3> QED
      BY <3>2, <3>3
  <2> QED
    BY <2>1, <2>2, <2>3, Zenon DEF Outcome
<1> QED
  BY <1>1, Inductive, PTL

------------------------------------------------------------------------------
(* The aliases and the history                                               *)

\* A list of entries: what it has for a key, and that no key is there twice
Finds(b, k, v) == \E j \in DOMAIN b : b[j].key = k /\ b[j].value = v
Lacks(b, k) == \A j \in DOMAIN b : b[j].key # k
Unique(b) == \A j, l \in DOMAIN b : b[j].key = b[l].key => j = l

\* The hash map has the entries that were asked for, each once and in its bucket.
Aliases ==
  /\ alias_hm = [b \in Buckets |-> alias_hm[b]] /\ meant = [n \in Names |-> meant[n]]
  /\ \A b \in Buckets : /\ Unique(alias_hm[b]) /\ \E S : alias_hm[b] \in Seq(S)
                        /\ \A j \in DOMAIN alias_hm[b] : Hash[alias_hm[b][j].key] = b
  /\ \A n \in Names : \/ meant[n] = <<>> /\ Lacks(alias_hm[Hash[n]], n)
                      \/ \E v : meant[n] = <<v>> /\ Finds(alias_hm[Hash[n]], n, v)

\* A sequence that fits an array of this capacity
FitsIn(d, capacity) == (\E S : d \in Seq(S)) /\ Len(d) \in 0 .. capacity

\* The history has every line but the one that is run.
History ==
  /\ FitsIn(history_da.data, history_da.capacity)
  /\ at = "read" /\ line = <<>> => history_da.data = typed
  /\ (at = "read" /\ line # <<>>) \/ at = "pipeline" => typed = Append(history_da.data, line)
  /\ history_da.capacity \in Nat /\ (history_da.capacity = 0 => history_da.data = <<>>)

\* The empty sequence fits everywhere.
LEMMA EmptyFits == ASSUME NEW c \in Nat PROVE FitsIn(<<>>, c)
<1>1. <<>> \in Seq({})
  OBVIOUS
<1>2. \E S : <<>> \in Seq(S)
  BY <1>1, Zenon
<1>3. Len(<<>>) \in 0 .. c
  OBVIOUS
<1> QED
  BY <1>2, <1>3, Zenon DEF FitsIn

\* One sequence behind another
LEMMA Joined ==
  ASSUME NEW S, NEW x \in Seq(S), NEW y \in Seq(S)
  PROVE  /\ x \o y \in Seq(S) /\ DOMAIN (x \o y) = 1 .. Len(x) + Len(y)
         /\ \A j \in 1 .. Len(x) + Len(y) : (x \o y)[j] = IF j <= Len(x) THEN x[j] ELSE y[j - Len(x)]
<1>1. x \o y \in Seq(S) /\ Len(x \o y) = Len(x) + Len(y) /\ Len(x) \in Nat /\ Len(y) \in Nat
  OBVIOUS
<1>2. DOMAIN (x \o y) = 1 .. Len(x) + Len(y)
  BY <1>1
<1>3. \A j \in 1 .. Len(x) + Len(y) : (x \o y)[j] = IF j <= Len(x) THEN x[j] ELSE y[j - Len(x)]
  OBVIOUS
<1> QED
  BY <1>1, <1>2, <1>3

\* The list without its entry m
Without(b, m) == SubSeq(b, 1, m - 1) \o SubSeq(b, m + 1, Len(b))

\* An entry is unlinked: the ones behind it move up.
LEMMA Removed ==
  ASSUME NEW S, NEW b \in Seq(S), NEW m \in DOMAIN b
  PROVE  /\ Without(b, m) \in Seq(S) /\ DOMAIN Without(b, m) = 1 .. Len(b) - 1
         /\ \A j \in 1 .. Len(b) - 1 : Without(b, m)[j] = IF j < m THEN b[j] ELSE b[j + 1]
<1> DEFINE x == SubSeq(b, 1, m - 1)
           y == SubSeq(b, m + 1, Len(b))
<1>1. Len(b) \in Nat /\ m \in 1 .. Len(b) /\ DOMAIN b = 1 .. Len(b)
  OBVIOUS
<1>2. x \in Seq(S) /\ Len(x) = m - 1 /\ \A j \in 1 .. m - 1 : x[j] = b[j]
  BY <1>1
<1>3. y \in Seq(S) /\ Len(y) = Len(b) - m /\ \A j \in 1 .. Len(b) - m : y[j] = b[m + j]
  <2>1. y \in Seq(S) /\ Len(y) = Len(b) - m
    BY <1>1
  <2> QED
    BY <1>1, <2>1
<1> HIDE DEF x, y
<1>4. /\ x \o y \in Seq(S) /\ DOMAIN (x \o y) = 1 .. Len(x) + Len(y) /\ Len(x) + Len(y) = Len(b) - 1
      /\ \A j \in 1 .. Len(x) + Len(y) : (x \o y)[j] = IF j <= Len(x) THEN x[j] ELSE y[j - Len(x)]
  <2>1. Len(x) + Len(y) = Len(b) - 1
    BY <1>1, <1>2, <1>3
  <2>2. x \in Seq(S) /\ y \in Seq(S)
    BY <1>2, <1>3, Zenon
  <2> QED
    BY <2>1, <2>2, Joined, Zenon
<1>5. \A j \in 1 .. Len(b) - 1 : (x \o y)[j] = IF j < m THEN b[j] ELSE b[j + 1]
  <2> SUFFICES ASSUME NEW j \in 1 .. Len(b) - 1 PROVE (x \o y)[j] = IF j < m THEN b[j] ELSE b[j + 1]
    BY Zenon
  <2>1. (x \o y)[j] = IF j <= Len(x) THEN x[j] ELSE y[j - Len(x)]
    BY <1>4, Zenon
  <2>2. CASE j < m
    BY <1>1, <1>2, <2>1, <2>2
  <2>3. CASE ~ (j < m)
    <3>1. j - (m - 1) \in 1 .. Len(b) - m /\ m + (j - (m - 1)) = j + 1 /\ ~ (j <= m - 1)
      BY <1>1, <2>3
    <3> QED
      BY <1>2, <1>3, <2>1, <2>3, <3>1
  <2> QED
    BY <2>2, <2>3, Zenon
<1>6. Without(b, m) = x \o y
  BY DEF Without, x, y
<1> QED
  BY <1>4, <1>5, <1>6

\* hm_get() gives the value of the key's entry.
LEMMA GetIs ==
  ASSUME NEW hm, NEW k, Unique(hm[Hash[k]])
  PROVE  /\ Lacks(hm[Hash[k]], k) => hm_get(hm, k) = <<>>
         /\ \A v : Finds(hm[Hash[k]], k, v) => hm_get(hm, k) = <<v>>
<1> DEFINE b == hm[Hash[k]]
           found == {e \in Range(b) : e.key = k}
<1>1. hm_get(hm, k) = IF found = {} THEN <<>> ELSE <<(CHOOSE e \in found : TRUE).value>>
  BY DEF hm_get
<1>2. found = {e \in {b[j] : j \in DOMAIN b} : e.key = k}
  BY DEF Range
<1>3. ASSUME Lacks(b, k) PROVE hm_get(hm, k) = <<>>
  BY <1>1, <1>2, <1>3 DEF Lacks
<1>4. ASSUME NEW v, Finds(b, k, v) PROVE hm_get(hm, k) = <<v>>
  <2>1. PICK j \in DOMAIN b : b[j].key = k /\ b[j].value = v
    BY <1>4 DEF Finds
  <2>2. found = {b[j]}
    BY <1>2, <2>1 DEF Unique
  <2> QED
    BY <1>1, <2>1, <2>2
<1> QED
  BY <1>3, <1>4

\* What a list b of entries of k and of others becomes
Others(b, nb, k) ==
  /\ \A q, v : q # k /\ Finds(b, q, v) => Finds(nb, q, v)
  /\ \A q : q # k /\ Lacks(b, q) => Lacks(nb, q)
  /\ \A j \in DOMAIN nb : nb[j].key = k \/ \E l \in DOMAIN b : nb[j].key = b[l].key

\* The list with entry e put into it
Put(b, e) == IF \E j \in DOMAIN b : b[j].key = e.key
             THEN [j \in DOMAIN b |-> IF b[j].key = e.key THEN e ELSE b[j]]
             ELSE <<e>> \o b

\* hm_put() gives the key its value, in its old entry or in a new one.
LEMMA PutIs ==
  ASSUME NEW S, NEW b \in Seq(S), Unique(b), NEW k, NEW v, NEW e, e.key = k, e.value = v,
         NEW nb, nb = Put(b, e)
  PROVE  nb \in Seq(S \cup {e}) /\ Unique(nb) /\ Finds(nb, k, v) /\ Others(b, nb, k)
<1>1. e.key = k /\ e.value = v /\ Len(b) \in Nat /\ DOMAIN b = 1 .. Len(b)
  OBVIOUS
<1>2. CASE \E j \in DOMAIN b : b[j].key = k
  <2>1. DOMAIN nb = DOMAIN b /\ \A j \in DOMAIN b : nb[j] = IF b[j].key = k THEN e ELSE b[j]
    BY <1>1, <1>2 DEF Put
  <2>2. nb \in Seq(S \cup {e})
    <3>1. \A j \in 1 .. Len(b) : b[j] \in S
      OBVIOUS
    <3>2. nb \in [1 .. Len(b) -> S \cup {e}]
      BY <1>1, <1>2, <3>1, Zenon DEF Put
    <3>3. \A T : \A n \in Nat : [1 .. n -> T] \subseteq Seq(T)
      OBVIOUS
    <3> QED
      BY <1>1, <3>2, <3>3, Zenon
  <2>3. \A j \in DOMAIN b : nb[j].key = b[j].key
    BY <1>1, <2>1, Zenon
  <2>4. Unique(nb)
    BY <2>1, <2>3 DEF Unique
  <2>5. Finds(nb, k, v)
    BY <1>1, <1>2, <2>1, Zenon DEF Finds
  <2>6. Others(b, nb, k)
    BY <1>1, <2>1, <2>3, Zenon DEF Others, Finds, Lacks
  <2> QED
    BY <2>2, <2>4, <2>5, <2>6, Zenon
<1>3. CASE ~ \E j \in DOMAIN b : b[j].key = k
  <2>1. /\ nb \in Seq(S \cup {e}) /\ DOMAIN nb = 1 .. Len(b) + 1
        /\ nb[1] = e /\ \A j \in 1 .. Len(b) : nb[j + 1] = b[j]
    <3>1. nb = <<e>> \o b
      BY <1>1, <1>3, Zenon DEF Put
    <3>2. b \in Seq(S \cup {e}) /\ <<e>> \in Seq(S \cup {e}) /\ Len(<<e>>) = 1 /\ <<e>>[1] = e
      OBVIOUS
    <3>3. nb \in Seq(S \cup {e}) /\ Len(nb) = Len(b) + 1
      BY <3>1, <3>2
    <3> QED
      BY <3>1, <3>2, <3>3
  <2>2. \A j \in DOMAIN nb : j = 1 \/ \E l \in DOMAIN b : j = l + 1 /\ nb[j] = b[l]
    <3> SUFFICES ASSUME NEW j \in DOMAIN nb, j # 1 PROVE \E l \in DOMAIN b : j = l + 1 /\ nb[j] = b[l]
      BY Zenon
    <3>1. j - 1 \in DOMAIN b /\ j = (j - 1) + 1
      BY <1>1, <2>1
    <3>2. nb[(j - 1) + 1] = b[j - 1]
      BY <1>1, <2>1, <3>1, Zenon
    <3> QED
      BY <3>1, <3>2, Zenon
  <2>3. 1 \in DOMAIN nb /\ \A l \in DOMAIN b : l + 1 \in DOMAIN nb /\ nb[l + 1] = b[l]
    BY <1>1, <2>1
  <2>4. Unique(nb)
    <3>1. \A l \in DOMAIN b : b[l].key # nb[1].key
      BY <1>1, <1>3, <2>1, Zenon
    <3> SUFFICES ASSUME NEW j \in DOMAIN nb, NEW l \in DOMAIN nb, nb[j].key = nb[l].key PROVE j = l
      BY Zenon DEF Unique
    <3>2. CASE j = 1 \/ l = 1
      BY <2>2, <3>1, <3>2, Zenon
    <3>3. CASE j # 1 /\ l # 1
      <4>1. PICK g \in DOMAIN b : j = g + 1 /\ nb[j] = b[g]
        BY <2>2, <3>3, Zenon
      <4>2. PICK h \in DOMAIN b : l = h + 1 /\ nb[l] = b[h]
        BY <2>2, <3>3, Zenon
      <4>3. b[g].key = b[h].key
        BY <4>1, <4>2, Zenon
      <4>4. g = h
        BY <4>3, Zenon DEF Unique
      <4> QED
        BY <4>1, <4>2, <4>4, Zenon
    <3> QED
      BY <3>2, <3>3, Zenon
  <2>5. Finds(nb, k, v)
    BY <1>1, <2>1, <2>3, Zenon DEF Finds
  <2>6. Others(b, nb, k)
    <3>1. ASSUME NEW q, NEW w, q # k, Finds(b, q, w) PROVE Finds(nb, q, w)
      <4>1. PICK l \in DOMAIN b : b[l].key = q /\ b[l].value = w
        BY <3>1, Zenon DEF Finds
      <4>2. l + 1 \in DOMAIN nb /\ nb[l + 1] = b[l]
        BY <2>3, <4>1, Zenon
      <4> QED
        BY <4>1, <4>2, Zenon DEF Finds
    <3>2. \A q : q # k /\ Lacks(b, q) => Lacks(nb, q)
      BY <1>1, <2>1, <2>2, ZenonT(30) DEF Lacks
    <3>3. \A j \in DOMAIN nb : nb[j].key = k \/ \E l \in DOMAIN b : nb[j].key = b[l].key
      BY <1>1, <2>1, <2>2, Zenon
    <3> QED
      BY <3>1, <3>2, <3>3, Zenon DEF Others
  <2> QED
    BY <2>1, <2>4, <2>5, <2>6, Zenon
<1> QED
  BY <1>2, <1>3, Zenon

\* hm_delete() takes the key's entry out of its list.
LEMMA DeleteIs ==
  ASSUME NEW S, NEW b \in Seq(S), Unique(b), NEW k, NEW m \in DOMAIN b, b[m].key = k, NEW nb, nb = Without(b, m)
  PROVE  nb \in Seq(S) /\ Unique(nb) /\ Lacks(nb, k) /\ Others(b, nb, k)
<1>1. /\ nb \in Seq(S) /\ DOMAIN nb = 1 .. Len(b) - 1
      /\ \A j \in 1 .. Len(b) - 1 : nb[j] = IF j < m THEN b[j] ELSE b[j + 1]
  BY Removed
<1>2. Len(b) \in Nat /\ m \in 1 .. Len(b) /\ DOMAIN b = 1 .. Len(b)
  OBVIOUS
<1> DEFINE Old(j) == IF j < m THEN j ELSE j + 1
<1>3. \A j \in DOMAIN nb : Old(j) \in DOMAIN b /\ Old(j) # m /\ nb[j] = b[Old(j)]
  BY <1>1, <1>2
<1>4. \A j, l \in DOMAIN nb : Old(j) = Old(l) => j = l
  BY <1>1, <1>2
<1>5. \A l \in DOMAIN b : l # m => \E j \in DOMAIN nb : Old(j) = l
  <2> SUFFICES ASSUME NEW l \in DOMAIN b, l # m PROVE \E j \in DOMAIN nb : Old(j) = l
    BY Zenon
  <2>1. CASE l < m
    BY <1>1, <1>2, <2>1
  <2>2. CASE l > m
    <3>1. l - 1 \in DOMAIN nb /\ ~ (l - 1 < m) /\ (l - 1) + 1 = l
      BY <1>1, <1>2, <2>2
    <3> QED
      BY <3>1
  <2> QED
    BY <1>2, <2>1, <2>2
<1> HIDE DEF Old
<1>6. Unique(nb)
  <2> SUFFICES ASSUME NEW j \in DOMAIN nb, NEW l \in DOMAIN nb, nb[j].key = nb[l].key PROVE j = l
    BY Zenon DEF Unique
  <2>1. Old(j) \in DOMAIN b /\ Old(l) \in DOMAIN b /\ b[Old(j)].key = b[Old(l)].key
    BY <1>3, Zenon
  <2>2. Old(j) = Old(l)
    BY <2>1, Zenon DEF Unique
  <2> QED
    BY <1>4, <2>2, Zenon
<1>7. Lacks(nb, k)
  BY <1>3, Zenon DEF Lacks, Unique
<1>8. Others(b, nb, k)
  <2>1. \A q, w : q # k /\ Finds(b, q, w) => Finds(nb, q, w)
    <3> SUFFICES ASSUME NEW q, NEW w, q # k, Finds(b, q, w) PROVE Finds(nb, q, w)
      BY Zenon
    <3>1. PICK l \in DOMAIN b : b[l].key = q /\ b[l].value = w
      BY Zenon DEF Finds
    <3>2. PICK j \in DOMAIN nb : Old(j) = l
      BY <1>5, <3>1, Zenon
    <3>3. nb[j] = b[l]
      BY <1>3, <3>2, Zenon
    <3> QED
      BY <3>1, <3>3, Zenon DEF Finds
  <2>2. \A q : q # k /\ Lacks(b, q) => Lacks(nb, q)
    BY <1>3, Zenon DEF Lacks
  <2>3. \A j \in DOMAIN nb : nb[j].key = k \/ \E l \in DOMAIN b : nb[j].key = b[l].key
    BY <1>3, Zenon
  <2> QED
    BY <2>1, <2>2, <2>3, Zenon DEF Others
<1> QED
  BY <1>1, <1>6, <1>7, <1>8, Zenon

\* A list of the table becomes another one, in which only the entry of k differs.
LEMMA TableStep ==
  ASSUME Aliases, NEW k, Hash[k] \in Buckets, NEW nb, Unique(nb), NEW S, nb \in Seq(S),
         Others(alias_hm[Hash[k]], nb, k), NEW r,
         (r = <<>> /\ Lacks(nb, k)) \/ (\E v : r = <<v>> /\ Finds(nb, k, v)),
         alias_hm' = [alias_hm EXCEPT ![Hash[k]] = nb], meant' = [meant EXCEPT ![k] = r]
  PROVE  Aliases'
<1> DEFINE h == Hash[k]
<1>1. alias_hm' = [b \in Buckets |-> alias_hm'[b]] /\ meant' = [n \in Names |-> meant'[n]]
  BY Zenon DEF Aliases
<1>2. alias_hm'[h] = nb /\ \A b \in Buckets : b # h => alias_hm'[b] = alias_hm[b]
  BY DEF Aliases
<1>3. \A n \in Names : meant'[n] = IF n = k THEN r ELSE meant[n]
  BY DEF Aliases
<1>4. ASSUME NEW b \in Buckets
      PROVE  /\ Unique(alias_hm'[b]) /\ \E T : alias_hm'[b] \in Seq(T)
             /\ \A j \in DOMAIN alias_hm'[b] : Hash[alias_hm'[b][j].key] = b
  <2>1. CASE b = h
    <3>1. \A l \in DOMAIN alias_hm[h] : Hash[alias_hm[h][l].key] = h
      BY Zenon DEF Aliases
    <3>2. \A j \in DOMAIN nb : nb[j].key = k \/ \E l \in DOMAIN alias_hm[h] : nb[j].key = alias_hm[h][l].key
      BY Zenon DEF Others
    <3>3. \A j \in DOMAIN nb : Hash[nb[j].key] = h
      BY <3>1, <3>2, Zenon
    <3> QED
      BY <1>2, <2>1, <3>3, Zenon
  <2>2. CASE b # h
    BY <1>2, <2>2, Zenon DEF Aliases
  <2> QED
    BY <2>1, <2>2, Zenon
<1>5. ASSUME NEW n \in Names
      PROVE  \/ meant'[n] = <<>> /\ Lacks(alias_hm'[Hash[n]], n)
             \/ \E v : meant'[n] = <<v>> /\ Finds(alias_hm'[Hash[n]], n, v)
  <2>1. Hash[n] \in Buckets
    BY Zenon DEF Buckets
  <2>2. CASE n = k
    BY <1>2, <1>3, <2>2, Zenon
  <2>3. CASE n # k /\ Hash[n] = h
    <3>1. meant'[n] = meant[n] /\ alias_hm'[Hash[n]] = nb
      BY <1>2, <1>3, <2>3, Zenon
    <3>2. CASE meant[n] = <<>> /\ Lacks(alias_hm[Hash[n]], n)
      BY <2>3, <3>1, <3>2, Zenon DEF Others
    <3>3. ASSUME NEW v, meant[n] = <<v>>, Finds(alias_hm[Hash[n]], n, v)
          PROVE  meant'[n] = <<v>> /\ Finds(alias_hm'[Hash[n]], n, v)
      BY <2>3, <3>1, <3>3, Zenon DEF Others
    <3> QED
      BY <3>2, <3>3, Zenon DEF Aliases
  <2>4. CASE n # k /\ Hash[n] # h
    BY <1>2, <1>3, <2>1, <2>4, Zenon DEF Aliases
  <2> QED
    BY <2>2, <2>3, <2>4, Zenon
<1> QED
  BY <1>1, <1>4, <1>5, Zenon DEF Aliases, Buckets

\* The alias builtin: a name that is no key of the model's table changes nothing.
LEMMA PutInv ==
  ASSUME Aliases, NEW k, NEW v, alias_hm' = hm_put(alias_hm, k, v), meant' = [meant EXCEPT ![k] = <<v>>]
  PROVE  Aliases'
<1> DEFINE b == alias_hm[Hash[k]]
           e == [key |-> k, value |-> v]
           nb == Put(b, e)
<1>1. alias_hm' = [alias_hm EXCEPT ![Hash[k]] = nb]
  BY DEF hm_put, Put
<1>2. CASE Hash[k] \in Buckets
  <2>1. PICK S : b \in Seq(S)
    BY <1>2, Zenon DEF Aliases
  <2>2. Unique(b)
    BY <1>2, Zenon DEF Aliases
  <2>4. e.key = k /\ e.value = v
    OBVIOUS
  <2> HIDE DEF b, e
  <2> HIDE DEF nb
  <2>3. nb \in Seq(S \cup {e}) /\ Unique(nb) /\ Finds(nb, k, v) /\ Others(b, nb, k)
    BY <2>1, <2>2, <2>4, PutIs, Zenon DEF nb
  <2> QED
    BY <1>1, <1>2, <2>3, TableStep, Zenon DEF b
<1>3. CASE Hash[k] \notin Buckets
  <2>1. k \notin Names
    BY <1>3, Zenon DEF Buckets
  <2>2. meant' = meant
    BY <2>1 DEF Aliases
  <2> HIDE DEF nb
  <2>3. alias_hm' = alias_hm
    BY <1>1, <1>3 DEF Aliases
  <2> QED
    BY <2>2, <2>3, Zenon DEF Aliases, Buckets
<1> QED
  BY <1>2, <1>3, Zenon

\* The unalias builtin
LEMMA DeleteInv ==
  ASSUME Aliases, NEW k \in Names, alias_hm' = hm_delete(alias_hm, k), meant' = [meant EXCEPT ![k] = <<>>]
  PROVE  Aliases'
<1> DEFINE b == alias_hm[Hash[k]]
           hits == {j \in DOMAIN b : b[j].key = k}
           m == CHOOSE j \in hits : \A h \in hits : j <= h
<1>1. Hash[k] \in Buckets
  BY Zenon DEF Buckets
<1>2. PICK S : b \in Seq(S)
  BY <1>1, Zenon DEF Aliases
<1>3. Unique(b)
  BY <1>1, Zenon DEF Aliases
<1>4. alias_hm' = IF hits = {} THEN alias_hm ELSE [alias_hm EXCEPT ![Hash[k]] = Without(b, m)]
  BY Zenon DEF hm_delete, Without
<1>5. CASE hits = {}
  <2>1. alias_hm' = [alias_hm EXCEPT ![Hash[k]] = b]
    BY <1>4, <1>5 DEF Aliases
  <2>2. Lacks(b, k)
    BY <1>5, Zenon DEF Lacks
  <2>3. Others(b, b, k)
    BY Zenon DEF Others
  <2> QED
    BY <1>1, <1>2, <1>3, <2>1, <2>2, <2>3, TableStep, Zenon
<1>6. CASE hits # {}
  <2>1. m \in DOMAIN b /\ b[m].key = k
    <3>1. PICK j \in hits : TRUE
      BY <1>6, Zenon
    <3>2. j \in Nat /\ \A l \in hits : j <= l
      <4>1. \A l \in hits : l = j
        BY <1>3, <3>1, Zenon DEF Unique
      <4>2. j \in DOMAIN b
        BY <3>1, Zenon
      <4> HIDE DEF hits, b
      <4>3. j \in Nat
        BY <1>2, <4>2
      <4> QED
        BY <4>1, <4>3
    <3>3. m \in hits
      BY <3>1, <3>2, Zenon
    <3> QED
      BY <3>3, Zenon
  <2> HIDE DEF m
  <2> DEFINE nb == Without(b, m)
  <2>2. nb \in Seq(S) /\ Unique(nb) /\ Lacks(nb, k) /\ Others(b, nb, k)
    BY <1>2, <1>3, <2>1, DeleteIs, Zenon
  <2>3. alias_hm' = [alias_hm EXCEPT ![Hash[k]] = nb]
    BY <1>4, <1>6, Zenon
  <2> QED
    BY <1>1, <2>2, <2>3, TableStep, Zenon
<1> QED
  BY <1>5, <1>6, Zenon

\* Without aliases
NoAliases == alias_hm = [b \in Buckets |-> <<>>] /\ meant = [n \in Names |-> <<>>]

\* An empty table is the one that was asked for.
LEMMA NothingMeant == NoAliases => Aliases
<1> SUFFICES ASSUME NoAliases PROVE Aliases
  OBVIOUS
<1>1. \A b \in Buckets : alias_hm[b] = <<>>
  BY Zenon DEF NoAliases
<1>2. \A n \in Names : meant[n] = <<>> /\ Hash[n] \in Buckets
  BY Zenon DEF NoAliases, Buckets
<1>3. DOMAIN <<>> = {} /\ <<>> \in Seq({})
  OBVIOUS
<1>4. Unique(<<>>) /\ \A k : Lacks(<<>>, k)
  BY <1>3 DEF Unique, Lacks
<1>5. alias_hm = [b \in Buckets |-> alias_hm[b]] /\ meant = [n \in Names |-> meant[n]]
  BY DEF NoAliases
<1> QED
  BY <1>1, <1>2, <1>3, <1>4, <1>5, Zenon DEF Aliases

\* The end of run_line(): the line is the last of the history.
LEMMA FinishHistory ==
  ASSUME History, Running \/ at = "pipeline", Finish(line), typed' = typed
  PROVE  History'
<1> DEFINE da == IF history_da.capacity = 0 THEN [data |-> <<>>, capacity |-> InitCap] ELSE history_da
<1>1. /\ da.data = history_da.data /\ da.capacity \in Nat \ {0}
      /\ \E S : da.data \in Seq(S)
      /\ Len(da.data) <= da.capacity
  <2>1. CASE history_da.capacity = 0
    <3>1. da.data = <<>> /\ da.capacity = InitCap /\ history_da.data = <<>>
      BY <2>1 DEF History
    <3>2. InitCap \in Nat \ {0}
      BY ShellAssumption
    <3>3. FitsIn(da.data, da.capacity)
      BY <3>1, <3>2, EmptyFits
    <3> QED
      BY <3>1, <3>2, <3>3 DEF FitsIn
  <2>2. CASE history_da.capacity # 0
    <3>1. da = history_da
      BY <2>2
    <3> QED
      BY <2>2, <3>1 DEF History, FitsIn
  <2> QED
    BY <2>1, <2>2
<1>2. history_da' = da_put(da, line) /\ line' = <<>> /\ at' = "read"
  BY DEF Finish, Read, add_history_after_exec
<1> HIDE DEF da
<1> DEFINE room == da_ensure_capacity(da)
<1>3. room.data = da.data /\ room.capacity \in Nat \ {0} /\ Len(da.data) < room.capacity
  <2>1. Len(da.data) \in Nat
    BY <1>1
  <2>2. /\ room.data = da.data
        /\ room.capacity = IF Len(da.data) < da.capacity THEN da.capacity ELSE 2 * da.capacity
    BY Zenon DEF da_ensure_capacity
  <2> HIDE DEF room
  <2> QED
    BY <1>1, <2>1, <2>2
<1>4. history_da'.data = Append(da.data, line) /\ history_da'.capacity = room.capacity
  BY <1>2, <1>3 DEF da_put
<1> HIDE DEF room
<1>5. typed = Append(history_da.data, line)
  BY Zenon DEF History, Running
<1>6. history_da'.data = typed'
  BY <1>1, <1>4, <1>5, Zenon
<1>7. FitsIn(history_da'.data, history_da'.capacity)
  <2>1. PICK S : da.data \in Seq(S)
    BY <1>1, Zenon
  <2>2. da.data \in Seq(S \cup {line})
    BY <2>1
  <2>3. Append(da.data, line) \in Seq(S \cup {line}) /\ Len(Append(da.data, line)) = Len(da.data) + 1
    BY <2>2
  <2> QED
    BY <1>3, <1>4, <2>2, <2>3 DEF FitsIn
<1>8. history_da'.capacity \in Nat /\ history_da'.capacity # 0
  BY <1>3, <1>4
<1> QED
  BY <1>2, <1>6, <1>7, <1>8 DEF History

\* Every step keeps the table and the history.
LEMMA NextRemembers ==
  ASSUME Aliases, History, [ShellNext]_allvars
  PROVE  Aliases' /\ History'
<1>1. ASSUME UNCHANGED <<alias_hm, meant>> PROVE Aliases'
  BY <1>1, Zenon DEF Aliases, Buckets
<1>2. ASSUME Keep PROVE Aliases'
  BY <1>1, <1>2, Zenon DEF Keep
<1>3. ASSUME UNCHANGED lines PROVE Aliases' /\ History'
  <2>1. UNCHANGED <<alias_hm, meant>> /\ UNCHANGED <<at, line, typed, history_da>>
    BY <1>3 DEF lines
  <2> QED
    BY <1>1, <2>1, Zenon DEF History
<1>4. ASSUME NEW x, NEW c, ReadLine(x, c) PROVE Aliases' /\ History'
  <2>1. UNCHANGED <<alias_hm, meant>>
    BY <1>4, Zenon DEF ReadLine
  <2>2. /\ at = "read" /\ line = <<>> /\ x # <<>> /\ line' = x /\ typed' = Append(typed, x)
        /\ history_da' = history_da /\ at' = at
    BY <1>4, Zenon DEF ReadLine
  <2>3. typed' = Append(history_da'.data, line') /\ line' # <<>>
    BY <2>2, Zenon DEF History
  <2>4. History'
    BY <2>2, <2>3 DEF History
  <2> QED
    BY <1>1, <2>1, <2>4, Zenon
<1>5. ASSUME clean_exit PROVE Aliases' /\ History'
  <2>1. /\ alias_hm' = [b \in Buckets |-> <<>>] /\ meant' = [n \in Names |-> <<>>]
        /\ history_da' = [data |-> <<>>, capacity |-> 0] /\ at' = "exited"
    BY <1>5, Zenon DEF clean_exit
  <2>2. History'
    <3>1. FitsIn(history_da.data, history_da.capacity)'
      BY <2>1, EmptyFits
    <3> QED
      BY <2>1, <3>1 DEF History
  <2>3. NoAliases'
    BY <2>1, Zenon DEF NoAliases, Buckets
  <2>4. Aliases'
    BY <2>3, NothingMeant, PTL
  <2> QED
    BY <2>2, <2>4, Zenon
<1>6. ASSUME TooMany \/ Blank \/ run_external \/ BadPipeline \/ EndPipeline PROVE Aliases' /\ History'
  <2>1. Keep /\ Finish(line) /\ typed' = typed /\ (Running \/ at = "pipeline")
    BY <1>6, Zenon DEF TooMany, Blank, run_external, BadPipeline, EndPipeline, Single
  <2> QED
    BY <1>2, <2>1, FinishHistory, Zenon
<1>7. ASSUME try_run_builtin PROVE Aliases' /\ History'
  <2>1. Finish(line) /\ typed' = typed /\ Running
    BY <1>7, Zenon DEF try_run_builtin, Single
  <2>2. PICK k, v : \/ alias_hm' = hm_put(alias_hm, k, v) /\ meant' = [meant EXCEPT ![k] = <<v>>]
                    \/ k \in Names /\ alias_hm' = hm_delete(alias_hm, k) /\ meant' = [meant EXCEPT ![k] = <<>>]
                    \/ UNCHANGED <<alias_hm, meant>>
    BY <1>7, Zenon DEF try_run_builtin
  <2>3. Aliases'
    BY <1>1, <2>2, PutInv, DeleteInv, Zenon
  <2> QED
    BY <2>1, <2>3, FinishHistory, Zenon
<1>8. ASSUME Fault PROVE Aliases' /\ History'
  <2>1. Keep /\ at' = "segv" /\ history_da' = history_da
    BY <1>8, Zenon DEF Fault
  <2>2. History'
    BY <2>1 DEF History
  <2> QED
    BY <1>2, <2>1, <2>2, Zenon
<1>9. ASSUME StartPipeline PROVE Aliases' /\ History'
  <2>1. UNCHANGED <<alias_hm, meant>>
    BY <1>9, Zenon DEF StartPipeline
  <2>2. Running /\ at' = "pipeline" /\ UNCHANGED <<history_da, line, typed>>
    BY <1>9, Zenon DEF StartPipeline
  <2>3. History'
    BY <2>2 DEF History, Running
  <2> QED
    BY <1>1, <2>1, <2>3, Zenon
<1>10. CASE UNCHANGED allvars
  BY <1>3, <1>10, Zenon DEF allvars
<1>11. CASE Pipelines
  BY <1>3, <1>11, Zenon DEF Pipelines
<1> QED
  BY <1>4, <1>5, <1>6, <1>7, <1>8, <1>9, <1>10, <1>11, Zenon DEF ShellNext, run_line

\* The first states have an empty table and no history.
LEMMA InitRemembers == ShellInit => Aliases /\ History
<1> SUFFICES ASSUME ShellInit PROVE Aliases /\ History
  OBVIOUS
<1>1. /\ alias_hm = [b \in Buckets |-> <<>>] /\ meant = [n \in Names |-> <<>>]
      /\ history_da = [data |-> <<>>, capacity |-> 0] /\ at = "read" /\ line = <<>> /\ typed = <<>>
  BY Zenon DEF ShellInit
<1>2. History
  <2>1. FitsIn(history_da.data, history_da.capacity)
    BY <1>1, EmptyFits
  <2> QED
    BY <1>1, <2>1 DEF History
<1>3. NoAliases
  BY <1>1, Zenon DEF NoAliases
<1> QED
  BY <1>2, <1>3, NothingMeant, Zenon

\* The table and the history together are Remembered.
LEMMA AreRemembered == Aliases /\ History => Remembered
<1> SUFFICES ASSUME Aliases, History PROVE Remembered
  OBVIOUS
<1>1. ASSUME NEW n \in Names PROVE hm_get(alias_hm, n) = meant[n]
  <2>1. Hash[n] \in Buckets
    BY Zenon DEF Buckets
  <2>2. Unique(alias_hm[Hash[n]])
    BY <2>1, Zenon DEF Aliases
  <2>3. \/ meant[n] = <<>> /\ Lacks(alias_hm[Hash[n]], n)
        \/ \E v : meant[n] = <<v>> /\ Finds(alias_hm[Hash[n]], n, v)
    BY Zenon DEF Aliases
  <2> QED
    BY <2>2, <2>3, GetIs, Zenon
<1>2. ASSUME NEW b \in Buckets
      PROVE  /\ IsInjective([j \in DOMAIN alias_hm[b] |-> alias_hm[b][j].key])
             /\ \A e \in Range(alias_hm[b]) : Hash[e.key] = b
  <2>1. Unique(alias_hm[b]) /\ \A j \in DOMAIN alias_hm[b] : Hash[alias_hm[b][j].key] = b
    BY Zenon DEF Aliases
  <2>2. IsInjective([j \in DOMAIN alias_hm[b] |-> alias_hm[b][j].key])
    BY <2>1 DEF IsInjective, Unique
  <2>3. \A e \in Range(alias_hm[b]) : Hash[e.key] = b
    BY <2>1 DEF Range
  <2> QED
    BY <2>2, <2>3, Zenon
<1>3. at = "read" /\ line = <<>> => history_da.data = typed
  BY Zenon DEF History
<1> QED
  BY <1>1, <1>2, <1>3, Zenon DEF Remembered

\* What the shell was told it remembers: the alias table is the map asked for,
\* whatever the names and however they share buckets, and the history has every
\* line that was typed, in order.
THEOREM Remembers == ShellSpec => []Remembered
<1>1. Aliases /\ History /\ [ShellNext]_allvars => Aliases' /\ History'
  BY NextRemembers
<1> QED
  BY InitRemembers, <1>1, AreRemembered, PTL DEF ShellSpec

==============================================================================
