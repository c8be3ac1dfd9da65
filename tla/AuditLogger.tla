---------------------------- MODULE AuditLogger ----------------------------
(***************************************************************************)
(* The asynchronous audit logger (internal/store/async.go) and the part of *)
(* the process life that owns it (cmd/dataworks/main.go).                  *)
(*                                                                         *)
(* Every gateway request ends in one Enqueue of its log record.  A bounded *)
(* channel hands the records to one writer goroutine; a record the         *)
(* database refuses is appended to an ndjson fallback file, which an       *)
(* administrator replays into the database later.                          *)
(*                                                                         *)
(* Abstractions.  A file is the set of its lines: a record stands for a    *)
(* readable line, BadLine for the unreadable ones, TornLine for an         *)
(* unfinished last line.  The order of lines is not kept, so a replay      *)
(* visits them in any order.                                               *)
(***************************************************************************)
EXTENDS Naturals, Sequences, FiniteSets, Functions

CONSTANTS
  Records,       \* log records, one for each request (Request.ID is unique)
  QueueSize,     \* capacity of the channel (cfg.Logging.QueueSize)
  MaxFaults,     \* bound on process deaths and file errors together
  NoRecord,      \* "no record in the writer's hands"
  BadLine,       \* an unreadable line of the fallback file
  TornLine       \* a last line without its newline

ASSUME RecordsAssumption ==
  /\ NoRecord \notin Records /\ BadLine \notin Records /\ TornLine \notin Records
  /\ BadLine # TornLine
ASSUME QueueSizeAssumption == QueueSize \in Nat \ {0}
ASSUME MaxFaultsAssumption == MaxFaults \in Nat

VARIABLES
  hasFallback,   \* whether cfg.Logging.FallbackPath is set, the same at every start
  request,       \* state of the handler of each record's request
  proc,          \* life of the process, see main()
  ch,            \* AsyncLogger.ch
  wpc, cur,      \* writer goroutine: where it is, the record it holds
  loop,          \* the loop run() is in, "drain" once it took <-l.done
  dropped, written, failed,      \* the three counters of AsyncLogger
  requestLogs,   \* records committed to request_logs and its child tables
  file,          \* lines of the fallback file
  rpc, todo,     \* ReplayFallback: where it is, lines it has yet to visit
  tmp,           \* lines of the .replay.tmp file
  refused,       \* history: records Enqueue dropped on a full channel
  hit,           \* history: records a death or a file error may have cost
  faults,        \* history: number of deaths and file errors so far
  enqueues       \* history: number of Enqueue calls of this process

Lines == Records \cup {BadLine, TornLine}

life     == <<hasFallback, request, proc>>
writer   == <<ch, wpc, cur, loop>>
counters == <<dropped, written, failed>>
disk     == <<requestLogs, file>>
replay   == <<rpc, todo, tmp>>
history  == <<refused, hit, faults, enqueues>>
vars == <<life, writer, counters, disk, replay, history>>

Alive    == proc \in {"serving", "stopping", "draining"}
InFlight == {r \in Records : request[r] = "inflight"}
Logged   == {r \in Records : request[r] = "logged"}
Accepted == Logged \ refused
Held     == {cur} \ {NoRecord}

TypeOK ==
  /\ hasFallback \in BOOLEAN
  /\ request \in [Records -> {"new", "inflight", "logged", "aborted"}]
  /\ proc \in {"serving", "stopping", "draining", "exited", "down"}
  /\ ch \in Seq(Records) /\ Len(ch) <= QueueSize
  /\ wpc \in {"idle", "insert", "spill", "stopped"}
  /\ cur \in IF wpc \in {"insert", "spill"} THEN Records ELSE {NoRecord}
  /\ loop \in {"serve", "drain"}
  /\ dropped \in Nat /\ written \in Nat /\ failed \in Nat
  /\ requestLogs \in SUBSET Records
  /\ file \in SUBSET Lines /\ tmp \in SUBSET Lines /\ todo \in SUBSET Lines
  /\ rpc \in {"idle", "scan", "swap"}
  /\ refused \in SUBSET Records /\ hit \in SUBSET Records /\ faults \in Nat
  /\ enqueues \in Nat

Init ==
  /\ hasFallback \in BOOLEAN
  /\ request = [r \in Records |-> "new"]
  /\ proc = "serving"
  /\ ch = <<>>
  /\ wpc = "idle" /\ cur = NoRecord /\ loop = "serve"
  /\ dropped = 0 /\ written = 0 /\ failed = 0
  /\ requestLogs = {}
  /\ file = {} /\ tmp = {} /\ todo = {} /\ rpc = "idle"
  /\ refused = {} /\ hit = {} /\ faults = 0 /\ enqueues = 0
-----------------------------------------------------------------------------
(* Where a record is: on a readable line of the fallback file (of the .tmp *)
(* file during the swap), in the memory of a live process, or committed.   *)

InFile(r)   == r \in file \/ (Alive /\ rpc = "swap" /\ r \in tmp)
InMemory(r) == Alive /\ r \in Range(ch) \cup Held
Kept(r)     == r \in requestLogs \/ InFile(r) \/ InMemory(r)
-----------------------------------------------------------------------------
(* Requests.                                                               *)

\* The HTTP server accepts a request.
Begin(r) ==
  /\ proc = "serving" /\ request[r] = "new"
  /\ request' = [request EXCEPT ![r] = "inflight"]
  /\ UNCHANGED <<hasFallback, proc, writer, counters, disk, replay, history>>

\* The channel takes one more record.
Room == Len(ch) < QueueSize

\* Enqueue: a send that never blocks, counted as dropped when it would.
Enqueue(r) ==
  /\ Alive /\ request[r] = "inflight"
  /\ request' = [request EXCEPT ![r] = "logged"]
  /\ enqueues' = enqueues + 1
  /\ \/ /\ Room
        /\ ch' = Append(ch, r)
        /\ UNCHANGED <<dropped, refused>>
     \/ /\ ~Room
        /\ dropped' = dropped + 1
        /\ refused' = refused \cup {r}
        /\ UNCHANGED ch
  /\ UNCHANGED <<hasFallback, proc, wpc, cur, loop, written, failed, disk, replay, hit,
                 faults>>
-----------------------------------------------------------------------------
(* The writer goroutine: run, write, writeFallback.                        *)

\* <-l.ch, in the serving loop and in the drain loop.
Take ==
  /\ Alive /\ wpc = "idle" /\ ch # <<>>
  /\ cur' = Head(ch) /\ ch' = Tail(ch)
  /\ wpc' = "insert"
  /\ UNCHANGED <<life, loop, counters, disk, replay, history>>

\* InsertLogRecord commits.
InsertOK ==
  /\ Alive /\ wpc = "insert"
  /\ requestLogs' = requestLogs \cup {cur}
  /\ written' = written + 1
  /\ wpc' = "idle" /\ cur' = NoRecord
  /\ UNCHANGED <<life, ch, loop, dropped, failed, file, replay, history>>

\* Mutant: the error is not counted.
InsertError_Uncounted ==
  /\ Alive /\ wpc = "insert"
  /\ wpc' = "spill"
  /\ UNCHANGED <<life, ch, cur, loop, counters, disk, replay, history>>

\* InsertLogRecord returns an error; the transaction may have committed
\* although the answer was lost (5 s context, connection reset).
InsertError ==
  /\ Alive /\ wpc = "insert"
  /\ requestLogs' \in {requestLogs, requestLogs \cup {cur}}
  /\ failed' = failed + 1
  /\ wpc' = "spill"
  /\ UNCHANGED <<life, ch, cur, loop, dropped, written, file, replay,
                 history>>

\* writeFallback without a configured path keeps nothing.
SpillNowhere ==
  /\ Alive /\ wpc = "spill" /\ ~hasFallback
  /\ wpc' = "idle" /\ cur' = NoRecord
  /\ hit' = hit \cup Held
  /\ UNCHANGED <<life, ch, loop, counters, disk, replay, refused, faults,
                 enqueues>>

\* What an append to a file does to its lines: after a torn line the new one is
\* glued to it and neither can be read.
Appended_Truncates(lines, line) == {line}   \* mutant: O_TRUNC in place of O_APPEND
Appended(lines, line) == IF TornLine \in lines
                           THEN (lines \ {TornLine}) \cup {BadLine}
                           ELSE lines \cup {line}

\* writeFallback appends the record under fallbackMu, which ReplayFallback
\* holds from its open to its return.
Spill ==
  /\ Alive /\ wpc = "spill" /\ hasFallback /\ rpc = "idle"
  /\ wpc' = "idle" /\ cur' = NoRecord
  /\ file' = Appended(file, cur)
  /\ hit' = IF TornLine \in file THEN hit \cup {cur} ELSE hit
  /\ UNCHANGED <<life, ch, loop, counters, requestLogs, replay, refused, faults,
                 enqueues>>

\* MkdirAll, OpenFile or Write fails (the code goes on); a short write leaves
\* part of the line.
SpillError ==
  /\ Alive /\ wpc = "spill" /\ hasFallback /\ rpc = "idle"
  /\ faults < MaxFaults /\ faults' = faults + 1
  /\ wpc' = "idle" /\ cur' = NoRecord
  /\ file' \in {file, file \cup {TornLine}}
  /\ hit' = hit \cup {cur}
  /\ UNCHANGED <<life, ch, loop, counters, requestLogs, replay, refused, enqueues>>
-----------------------------------------------------------------------------
(* ReplayFallback: an administrator's request, one at a time (fallbackMu). *)

\* Open the file and truncate the .replay.tmp file.
ReplayOpen ==
  /\ proc = "serving" /\ hasFallback /\ rpc = "idle" /\ file # {}
  /\ rpc' = "scan" /\ todo' = file /\ tmp' = {}
  /\ UNCHANGED <<life, writer, counters, disk, history>>

Visit(line) ==
  /\ Alive /\ rpc = "scan" /\ line \in todo
  /\ todo' = todo \ {line}

\* The line's record is inserted, or the insert reports a duplicate key.
ReplayImport(r) ==
  /\ Visit(r)
  /\ requestLogs' = requestLogs \cup {r}
  /\ UNCHANGED <<life, writer, counters, file, rpc, tmp, history>>

\* Any other error (also one that hides a commit): the line is kept.
ReplayKeep(r) ==
  /\ Visit(r)
  /\ tmp' = Appended(tmp, r)
  /\ requestLogs' \in {requestLogs, requestLogs \cup {r}}
  /\ hit' = IF TornLine \in tmp THEN hit \cup ({r} \ requestLogs') ELSE hit
  /\ UNCHANGED <<life, writer, counters, file, rpc, refused, faults, enqueues>>

\* json.Unmarshal fails: the line is kept, with a newline.
ReplayKeepBad ==
  /\ \E line \in {BadLine, TornLine} : Visit(line)
  /\ tmp' = Appended(tmp, BadLine)
  /\ UNCHANGED <<life, writer, counters, disk, rpc, history>>

\* The line should be kept but tmp.WriteString fails (the code goes on); a
\* short write leaves part of the line.
ReplayKeepError(line) ==
  /\ Visit(line)
  /\ faults < MaxFaults /\ faults' = faults + 1
  /\ tmp' \in {tmp, tmp \cup {TornLine}}
  /\ requestLogs' \in {requestLogs, requestLogs \cup ({line} \cap Records)}
  /\ hit' = hit \cup (({line} \cap Records) \ requestLogs')
  /\ UNCHANGED <<life, writer, counters, file, rpc, refused, enqueues>>

\* A scanner, Close or Remove error: the fallback file stays as it was.
ReplayAbort ==
  /\ Alive /\ rpc = "scan"
  /\ rpc' = "idle" /\ todo' = {}
  /\ UNCHANGED <<life, writer, counters, disk, tmp, history>>

\* os.Remove(fallbackPath): the end when no line was kept, else the first half
\* of the swap.
ReplayRemove ==
  /\ Alive /\ rpc = "scan" /\ todo = {}
  /\ file' = {}
  /\ rpc' = IF tmp = {} THEN "idle" ELSE "swap"
  /\ UNCHANGED <<life, writer, counters, requestLogs, todo, tmp, history>>

\* os.Rename(tmpPath, fallbackPath).
ReplayRename ==
  /\ Alive /\ rpc = "swap"
  /\ file' = tmp /\ tmp' = {}
  /\ rpc' = "idle"
  /\ UNCHANGED <<life, writer, counters, requestLogs, todo, history>>

\* os.Rename fails: the lines are left in a file nothing reads again.
ReplayRenameError ==
  /\ Alive /\ rpc = "swap"
  /\ faults < MaxFaults /\ faults' = faults + 1
  /\ rpc' = "idle"
  /\ hit' = hit \cup (tmp \cap Records)
  /\ UNCHANGED <<life, writer, counters, disk, todo, tmp, refused, enqueues>>
-----------------------------------------------------------------------------
(* The process: main() and what a death leaves.                            *)

\* SIGTERM: httpServer.Shutdown stops accepting and waits for the handlers.
Signal ==
  /\ proc = "serving"
  /\ proc' = "stopping"
  /\ UNCHANGED <<hasFallback, request, writer, counters, disk, replay, history>>

\* Shutdown returned nil, so no handler is left (a replay is a handler); the
\* deferred logger.Stop closes done.
Stop ==
  /\ proc = "stopping" /\ InFlight = {} /\ rpc = "idle"
  /\ proc' = "draining"
  /\ UNCHANGED <<hasFallback, request, writer, counters, disk, replay, history>>

\* run() takes the <-l.done case; select picks it at random among the ready
\* ones, so records may be left in the channel.
TakeDone ==
  /\ proc = "draining" /\ wpc = "idle" /\ loop = "serve"
  /\ loop' = "drain"
  /\ UNCHANGED <<life, ch, wpc, cur, counters, disk, replay, history>>

\* Mutants: run returns on done with records left; the drain loop has no default.
WriterReturn_Early ==
  /\ proc = "draining" /\ loop = "drain" /\ wpc = "idle"
  /\ wpc' = "stopped"
  /\ UNCHANGED <<life, ch, cur, loop, counters, disk, replay, history>>

WriterReturn_NoDefault == ch # <<>> /\ WriterReturn_Early

\* The drain loop's default case: run returns.
WriterReturn ==
  /\ proc = "draining" /\ loop = "drain" /\ wpc = "idle" /\ ch = <<>>
  /\ wpc' = "stopped"
  /\ UNCHANGED <<life, ch, cur, loop, counters, disk, replay, history>>

\* Stop returns after wg.Wait and main returns.
Exit ==
  /\ proc = "draining" /\ wpc = "stopped"
  /\ proc' = "exited"
  /\ UNCHANGED <<hasFallback, request, writer, counters, disk, replay, history>>

\* What is in memory is gone; so are the lines that only the .replay.tmp file
\* holds; an append in progress may leave part of its line.
Die ==
  /\ faults < MaxFaults /\ faults' = faults + 1
  /\ proc' = "down"
  /\ request' = [r \in Records |-> IF r \in InFlight THEN "aborted" ELSE request[r]]
  /\ hit' = hit \cup {r \in Records : InMemory(r) \/ (rpc = "swap" /\ r \in tmp)}
  /\ \/ UNCHANGED file
     \/ wpc = "spill" /\ hasFallback /\ rpc = "idle" /\ file' = file \cup {TornLine}
  /\ UNCHANGED <<hasFallback, writer, counters, requestLogs, replay, refused, enqueues>>

\* A crash or a kill.
Crash == Alive /\ Die

\* Shutdown's 15 s pass with a handler still running: os.Exit(1) skips the
\* deferred logger.Stop.
ShutdownTimeout == proc = "stopping" /\ (InFlight # {} \/ rpc # "idle") /\ Die

\* A new process on the same database and the same files.
Restart ==
  /\ proc \in {"exited", "down"}
  /\ proc' = "serving"
  /\ ch' = <<>>
  /\ wpc' = "idle" /\ cur' = NoRecord /\ loop' = "serve"
  /\ dropped' = 0 /\ written' = 0 /\ failed' = 0
  /\ rpc' = "idle" /\ todo' = {} /\ tmp' = {}
  /\ enqueues' = 0
  /\ UNCHANGED <<hasFallback, request, disk, refused, hit, faults>>
-----------------------------------------------------------------------------
Insert == InsertOK \/ InsertError

WriteFallback == SpillNowhere \/ Spill \/ SpillError

ReplayStep ==
  \/ \E r \in Records : ReplayImport(r) \/ ReplayKeep(r)
  \/ ReplayKeepBad \/ \E line \in Lines : ReplayKeepError(line)
  \/ ReplayAbort
  \/ ReplayRemove \/ ReplayRename \/ ReplayRenameError

Next ==
  \/ \E r \in Records : Begin(r) \/ Enqueue(r)
  \/ Take \/ Insert \/ WriteFallback
  \/ ReplayOpen \/ ReplayStep
  \/ Signal \/ Stop \/ TakeDone \/ WriterReturn \/ Exit
  \/ Crash \/ ShutdownTimeout \/ Restart

Spec == Init /\ [][Next]_vars

\* The Go scheduler runs the writer, a replay and main() as long as they can
\* run, and a sync.Mutex does not starve a waiter: the writer gets fallbackMu
\* although replays come back for ever (strong fairness).
Fairness ==
  /\ WF_vars(Take) /\ WF_vars(Insert) /\ SF_vars(WriteFallback)
  /\ WF_vars(TakeDone) /\ WF_vars(WriterReturn) /\ WF_vars(Exit)
  /\ WF_vars(ReplayStep)

FairSpec == Spec /\ Fairness
-----------------------------------------------------------------------------
(* Properties.                                                             *)

\* The three counters of /metrics account for every Enqueue of this process:
\* each record is dropped, written, failed, still in the channel or about to
\* be inserted (async.go: Enqueue, write).
CountersAddUp ==
  Alive =>
    dropped + written + failed + Len(ch) + (IF wpc = "insert" THEN 1 ELSE 0)
      = enqueues

\* A record Enqueue accepted is never forgotten, whatever the database answers
\* and however replays and the drain interleave with the writer: it takes a
\* death, a file error or a missing fallback path to lose one.  In particular a
\* clean exit leaves nothing behind in the channel.
NothingVanishes ==
  \A r \in Accepted : Kept(r) \/ (r \in hit /\ (faults > 0 \/ ~hasFallback))

\* A queued record reaches the database or the fallback file although replays
\* hold fallbackMu again and again (or a fault gets it first).
Settles ==
  \A r \in Records : r \in Range(ch) ~> r \in requestLogs \cup file \cup hit

\* logger.Stop returns: the drain ends.
StopReturns == proc = "draining" ~> proc \in {"exited", "down"}
-----------------------------------------------------------------------------
(* What the logger promises of one record at a time: AuditLedger.          *)

status == [r \in Records |->
  IF r \in requestLogs THEN "stored"
  ELSE IF r \in refused THEN "dropped"
  ELSE IF r \notin Logged THEN "unlogged"
  ELSE IF InFile(r) THEN "spilled"
  ELSE IF InMemory(r) THEN "queued"
  ELSE "lost"]

Ledger == INSTANCE AuditLedger WITH status <- status, hit <- hit

LedgerSpec == Ledger!Spec
=============================================================================
