-------------------------- MODULE CompanionClient --------------------------
(***************************************************************************)
(* The Windows shell (MainWindow.xaml.cs) and its companion, a process of  *)
(* the desktop shell that answers one request per line on stdio (main.rs). *)
(* An operator's action is a chain of requests: a review is followed by a  *)
(* refresh, a refresh fetches the audit among other things and then shows  *)
(* all of it.  DesktopShellCompanionClient serialises the requests with a  *)
(* semaphore, and when an answer does not come, or is that of another      *)
(* request, kills the companion, starts a new one and sends it once more.  *)
(*                                                                         *)
(* The continuations of all actions run on the UI thread, so what happens  *)
(* between two awaits is one step here.                                    *)
(***************************************************************************)
EXTENDS Integers, Sequences, FiniteSets

CONSTANTS Actions,    \* actions of the operator, each taken once
          Reviews,    \* those of them that review a proof, each its own
          None,       \* no request, no line being served
          Torn,       \* a line that is not complete
          MaxFaults   \* bound: cancellations and deaths of the companion

ASSUME ReviewsAssumption == Reviews \subseteq Actions
ASSUME FaultsAssumption  == MaxFaults \in Nat

VARIABLES pc,        \* where each action is
          todo,      \* the requests it has left, the current one first
          found,     \* the reviews its audit search returned
          semaphore, \* the holder of _requestLock, then those that wait
          attempt,   \* attempts of the holder's request so far
          sent,      \* the number of the last request id
          companion, \* "none", "running", or "exited" of its own
          stdin, stdout, \* the lines in the pipes
          serving,   \* the line the companion is working on, or None
          answer,    \* what it is going to say to that
          reviewed,  \* backend: the reviews that took effect
          executions, \* history: how often each review was executed
          shown,     \* the reviews in the snapshot on the screen
          reported,  \* the reviews that were reported as done and refreshed
          disposed,  \* _isDisposed
          faults     \* cancellations and deaths so far

client  == <<pc, todo, found, semaphore, attempt, sent>>
process == <<companion, stdin, stdout, serving, answer>>
backend == <<reviewed, executions>>
screen  == <<shown, reported>>
vars    == <<client, process, backend, screen, disposed, faults>>

\* LoadSnapshotAsync asks for more before its audit search, and for what it can
\* do without after it.
Refresh == <<"fetch", "search", "optional">>

RequestsOf(a) == IF a \in Reviews THEN <<"review">> \o Refresh ELSE Refresh

Commands == {"fetch", "search", "optional", "review"}

Line   == [id : Nat, of : Actions, command : Commands]
Answer == [id : Nat, ok : BOOLEAN, found : SUBSET Reviews]

\* What the companion says to a line it cannot parse: the id is "unknown".
Unparsed == [id |-> 0, ok |-> FALSE, found |-> {}]

ASSUME MarksAssumption ==
  None \notin Line \cup {Unparsed} /\ Torn \notin Line \cup Answer

Init ==
  /\ pc = [a \in Actions |-> "idle"]
  /\ todo = [a \in Actions |-> RequestsOf(a)]
  /\ found = [a \in Actions |-> {}]
  /\ semaphore = <<>>
  /\ attempt = 0
  /\ sent = 0
  /\ companion = "none"
  /\ stdin = <<>> /\ stdout = <<>>
  /\ serving = None /\ answer = Unparsed
  /\ reviewed = {}
  /\ executions = [a \in Reviews |-> 0]
  /\ shown = {} /\ reported = {}
  /\ disposed = FALSE
  /\ faults = 0

Fault == faults < MaxFaults /\ faults' = faults + 1

Goto(a, label) == pc' = [pc EXCEPT ![a] = label]

Holds(a) == semaphore # <<>> /\ Head(semaphore) = a

-----------------------------------------------------------------------------
(* The process: EnsureCompanionStarted and StopCompanion.                    *)

NewPipes == stdin' = <<>> /\ stdout' = <<>> /\ serving' = None /\ answer' = Unparsed

StopCompanion == companion' = "none" /\ NewPipes

StartAnew == companion' = "running" /\ NewPipes

EnsureStarted ==
  IF companion = "running" THEN UNCHANGED process ELSE StartAnew

-----------------------------------------------------------------------------
(* SendAsync: a request of an action.                                        *)

\* The action begins with its first request.
Click(a) ==
  /\ pc[a] = "idle"
  /\ ~disposed
  /\ Goto(a, "waiting")
  /\ semaphore' = Append(semaphore, a)
  /\ UNCHANGED <<todo, found, attempt, sent, process, backend, screen, disposed, faults>>

\* Mutant: an exception leaves the semaphore taken.
LeaveTaken(a) == semaphore' = semaphore

\* The semaphore goes to the next in line, or the wait for it ends.
Leave(a) ==
  \E k \in DOMAIN semaphore :
    /\ semaphore[k] = a
    /\ semaphore' = SubSeq(semaphore, 1, k - 1) \o SubSeq(semaphore, k + 1, Len(semaphore))

\* ApplyLiveSnapshot shows what the action has found.
Show(a) ==
  /\ Leave(a)
  /\ Goto(a, "done")
  /\ todo' = [todo EXCEPT ![a] = <<>>]
  /\ shown' = found[a]
  /\ reported' = IF a \in Reviews THEN reported \cup {a} ELSE reported
  /\ UNCHANGED found

\* The message of the failure is shown, and the last snapshot stays.
End(a) ==
  /\ Leave(a)
  /\ Goto(a, "done")
  /\ UNCHANGED <<todo, found, screen>>

\* The exception of a request ends the action, unless it can do without.
GiveUp(a) ==
  /\ IF Head(todo[a]) = "optional" THEN Show(a) ELSE End(a)
  /\ attempt' = 0
  /\ UNCHANGED sent

\* The wait for the semaphore is over: start the companion, at the second
\* attempt perhaps, and write.
Begin(a) ==
  /\ pc[a] = "waiting" /\ Holds(a)
  /\ ~disposed
  /\ EnsureStarted
  /\ Goto(a, "writing")
  /\ attempt' \in IF companion = "running" THEN {1} ELSE {1, 2}
  /\ sent' = sent + 1
  /\ UNCHANGED <<todo, found, semaphore, backend, screen, disposed, faults>>

\* The companion cannot be launched: a second attempt fails as well.
LaunchFails(a) ==
  /\ pc[a] = "waiting" /\ Holds(a)
  /\ ~disposed /\ companion # "running"
  /\ GiveUp(a)
  /\ StopCompanion
  /\ UNCHANGED <<backend, disposed, faults>>

\* Mutant: the second attempt may be followed by another one.
RetryAlways(a) ==
  /\ ~disposed
  /\ StartAnew
  /\ Goto(a, "writing")
  /\ attempt' = attempt + 1
  /\ sent' = sent + 1
  /\ UNCHANGED <<todo, found, semaphore, screen>>

\* Mutant: does not look whether the client was disposed of meanwhile.
RetryUnchecked(a) ==
  /\ attempt = 1
  /\ StartAnew
  /\ Goto(a, "writing")
  /\ attempt' = 2
  /\ sent' = sent + 1
  /\ UNCHANGED <<todo, found, semaphore, screen>>

\* SendWithRestartAsync, the exceptions of the first attempt: kill, start and
\* send again, with an id of its own.
Retry(a) ==
  /\ attempt = 1 /\ ~disposed
  /\ StartAnew
  /\ Goto(a, "writing")
  /\ attempt' = 2
  /\ sent' = sent + 1
  /\ UNCHANGED <<todo, found, semaphore, screen>>

\* Those of the second attempt reach the caller.
Throw(a) ==
  /\ attempt # 1 \/ disposed
  /\ GiveUp(a)
  /\ UNCHANGED process

\* The companion was killed and cannot be started again.
RestartFails(a) ==
  /\ attempt = 1 /\ ~disposed
  /\ GiveUp(a)
  /\ StopCompanion

IOException(a) == Retry(a) \/ RestartFails(a) \/ Throw(a)

\* A line that follows an incomplete one makes a line nobody can parse.
Appended(lines, line) ==
  IF lines # <<>> /\ lines[Len(lines)] = Torn
  THEN [lines EXCEPT ![Len(lines)] = Unparsed]
  ELSE Append(lines, line)

Request(a) == [id |-> sent, of |-> a, command |-> Head(todo[a])]

Write(a) ==
  /\ pc[a] = "writing"
  /\ companion = "running"
  /\ stdin' = Appended(stdin, Request(a))
  /\ Goto(a, "reading")
  /\ UNCHANGED <<todo, found, semaphore, attempt, sent, companion, stdout, serving,
                 answer, backend, screen, disposed, faults>>

\* The pipe is broken.
WriteFails(a) ==
  /\ pc[a] = "writing"
  /\ companion # "running"
  /\ IOException(a)
  /\ UNCHANGED <<backend, disposed, faults>>

\* Mutant: any answer will do.
MineAnyway(line) == TRUE

Mine(line) == line.id = sent

\* Mutant: the semaphore goes to the one that waited least.
RequeueLatest(a) ==
  LET n == Len(semaphore) IN
  semaphore' = IF n = 1 THEN semaphore
               ELSE <<semaphore[n]>> \o SubSeq(semaphore, 2, n - 1) \o <<a>>

\* The semaphore is released and asked for again by the next request.
Requeue(a) == semaphore' = Append(Tail(semaphore), a)

\* The request is answered and the action goes on.
Continue(a, line) ==
  /\ attempt' = 0
  /\ \/ /\ Len(todo[a]) > 1
        /\ found' = IF Head(todo[a]) = "search" THEN [found EXCEPT ![a] = line.found]
                    ELSE found
        /\ todo' = [todo EXCEPT ![a] = Tail(@)]
        /\ Goto(a, "waiting")
        /\ Requeue(a)
        /\ UNCHANGED screen
     \/ Len(todo[a]) = 1 /\ Show(a)
  /\ UNCHANGED sent

\* ReadLineAsync returns a line.
Read(a) ==
  LET line == Head(stdout)
      foreign == line # Torn /\ ~Mine(line) IN
  /\ pc[a] = "reading"
  /\ stdout # <<>>
  /\ \/ /\ line # Torn /\ Mine(line) /\ line.ok
        /\ Continue(a, line)
        /\ stdout' = Tail(stdout)
        /\ UNCHANGED <<companion, stdin, serving, answer>>
     \/ /\ foreign
        /\ Retry(a) \/ RestartFails(a)
     \* An error of the companion, or half a line, is not tried again.
     \/ /\ foreign => attempt = 2
        /\ line # Torn => ~(Mine(line) /\ line.ok)
        /\ GiveUp(a)
        /\ stdout' = Tail(stdout)
        /\ UNCHANGED <<companion, stdin, serving, answer>>
  /\ UNCHANGED <<backend, disposed, faults>>

\* The companion has closed its end of the pipe.
ReadEnds(a) ==
  /\ pc[a] = "reading"
  /\ stdout = <<>> /\ companion # "running"
  /\ IOException(a)
  /\ UNCHANGED <<backend, disposed, faults>>

\* A token is cancelled during an await: a line may be written or not, or in
\* part, and an answer stays in the pipe, or the rest of it does.
Cancel(a) ==
  /\ pc[a] \in {"waiting", "writing", "reading"}
  /\ \/ disposed /\ UNCHANGED <<faults, process>>
     \/ /\ ~disposed
        /\ Fault
        /\ \/ UNCHANGED <<stdin, stdout>>
           \/ /\ pc[a] = "writing" /\ companion = "running"
              /\ stdin' \in {Appended(stdin, Request(a)), Appended(stdin, Torn)}
              /\ UNCHANGED stdout
           \/ /\ pc[a] = "reading" /\ stdout # <<>>
              /\ stdout' = [stdout EXCEPT ![1] = Torn]
              /\ UNCHANGED stdin
        /\ UNCHANGED <<companion, serving, answer>>
  \* The preview, the last of the optional requests, survives even this.
  /\ End(a) \/ (Head(todo[a]) = "optional" /\ Show(a))
  /\ attempt' = IF Holds(a) THEN 0 ELSE attempt
  /\ UNCHANGED <<sent, backend, disposed>>

\* DisposeAsync, when the window is closed.
Dispose ==
  /\ ~disposed
  /\ disposed' = TRUE
  /\ StopCompanion
  /\ UNCHANGED <<client, backend, screen, faults>>

-----------------------------------------------------------------------------
(* The companion: run_native_shell_companion.                                *)

Running == companion = "running"

\* It takes a line and carries out the command, which may fail.  The search is
\* for the newest 200 dispatches: the proofs that are reviewed are taken to be
\* among them.
Serve ==
  LET line == Head(stdin) IN
  /\ Running
  /\ serving = None
  /\ stdin # <<>> /\ line # Torn
  /\ serving' = line
  /\ stdin' = Tail(stdin)
  /\ \/ line = Unparsed /\ answer' = Unparsed /\ UNCHANGED backend
     \/ /\ line # Unparsed
        /\ answer' = [id |-> line.id, ok |-> TRUE,
                      found |-> IF line.command = "search" THEN reviewed ELSE {}]
        /\ IF line.command = "review"
           THEN /\ reviewed' = reviewed \cup {line.of}
                /\ executions' = [executions EXCEPT ![line.of] = @ + 1]
           ELSE UNCHANGED backend
  /\ UNCHANGED <<client, companion, stdout, screen, disposed, faults>>

ServeFails ==
  LET line == Head(stdin) IN
  /\ Running
  /\ serving = None
  /\ stdin # <<>> /\ line \notin {Torn, Unparsed}
  /\ Fault
  /\ serving' = line
  /\ stdin' = Tail(stdin)
  /\ answer' = [id |-> line.id, ok |-> FALSE, found |-> {}]
  /\ UNCHANGED <<client, companion, stdout, backend, screen, disposed>>

Respond ==
  /\ Running
  /\ serving # None
  /\ serving' = None
  /\ stdout' = Append(stdout, answer)
  /\ answer' = Unparsed
  /\ UNCHANGED <<client, companion, stdin, backend, screen, disposed, faults>>

\* The companion dies, perhaps while it writes an answer; what it has written
\* can still be read.
Die ==
  /\ Running
  /\ Fault
  /\ companion' = "exited"
  /\ stdin' = <<>>
  /\ stdout' \in {stdout} \cup IF serving # None THEN {Append(stdout, Torn)} ELSE {}
  /\ serving' = None
  /\ answer' = Unparsed
  /\ UNCHANGED <<client, backend, screen, disposed>>

-----------------------------------------------------------------------------
Proceed(a) ==
  \/ Begin(a) \/ Write(a) \/ WriteFails(a) \/ Read(a) \/ ReadEnds(a)
  \/ disposed /\ Cancel(a)

CompanionStep == Serve \/ Respond

Next ==
  \/ \E a \in Actions : Click(a) \/ Proceed(a) \/ LaunchFails(a) \/ Cancel(a)
  \/ CompanionStep \/ ServeFails \/ Die \/ Dispose

\* The UI thread and the companion go on; nothing is said of the operator, of
\* cancellations and of deaths.
Spec ==
  /\ Init /\ [][Next]_vars
  /\ \A a \in Actions : WF_vars(Proceed(a))
  /\ WF_vars(CompanionStep)

-----------------------------------------------------------------------------
(* Properties.                                                              *)

\* The variables hold what their comments say.
TypeOK ==
  /\ pc \in [Actions -> {"idle", "waiting", "writing", "reading", "done"}]
  /\ todo \in [Actions -> Seq(Commands)]
  /\ found \in [Actions -> SUBSET Reviews]
  /\ semaphore \in Seq(Actions)
  /\ attempt \in 0..2
  /\ sent \in Nat
  /\ companion \in {"none", "running", "exited"}
  /\ stdin \in Seq(Line \cup {Torn, Unparsed})
  /\ stdout \in Seq(Answer \cup {Torn})
  /\ serving \in Line \cup {None, Unparsed}
  /\ answer \in Answer
  /\ reviewed \subseteq Reviews /\ shown \subseteq Reviews /\ reported \subseteq Reviews
  /\ executions \in [Reviews -> Nat]
  /\ disposed \in BOOLEAN
  /\ faults \in 0..MaxFaults

\* A review that the shell reports as done has been carried out by a companion:
\* no answer of an earlier, cancelled request is taken for its own
\* (SendCoreAsync compares the ids).
ReportedWasDone == reported \subseteq reviewed

\* Once a review is reported as refreshed it is on the screen and stays there:
\* no refresh that searched earlier shows its snapshot later, as long as the
\* search returns its dispatch at all (RefreshLiveStateAsync, SemaphoreSlim).
ReportedStaysVisible == reported \subseteq shown

\* A review is executed twice at most, and once if nothing was cancelled and no
\* companion died (SendWithRestartAsync).
ExecutedAtMostTwice ==
  \A a \in Reviews : executions[a] <= (IF faults = 0 THEN 1 ELSE 2)

\* No companion runs once the client is disposed of, whatever request was
\* about to start one (DisposeAsync, ThrowIfDisposed).
NothingRunsAfterDispose == disposed => companion = "none"

\* Every action ends, and the semaphore with it (SendAsync).
ActionsEnd == \A a \in Actions : pc[a] = "waiting" ~> pc[a] = "done"
=============================================================================
