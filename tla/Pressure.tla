------------------------------ MODULE Pressure ------------------------------
(* The memory pressure library (src/src/libraries/resources/psi.c) and the     *)
(* daemon that watches it (src/src/daemons/ar_resourced/main.c).               *)
(*                                                                             *)
(* The kernel replaces the text of /proc/pressure/memory at any moment.  The   *)
(* daemon reads it, classifies it and, when the level has changed, evaluates   *)
(* it with no inventory of processes (it has none to give).  An embedding      *)
(* program calls the same evaluation with an inventory and a callback of its   *)
(* own, which may fail: the library has been asked for the least important     *)
(* process to shed, or to warn every worker from the least important one on.   *)
(* A text is a sequence of lines, a line a name and its fields in order; a     *)
(* value that is not a number, or does not fit its type, is -1.                *)
EXTENDS Integers, Sequences, SequencesExt

CONSTANTS
    Texts,        \* what the kernel may put into the pressure file
    Warning,      \* ALRIOS_PSI_WARNING_PERCENT, psi.h
    Shedding,     \* ALRIOS_PSI_SHEDDING_PERCENT, psi.h
    Inventories,  \* the process inventories an embedding program passes
    CoreNames     \* the names of the daemons that are never shed

VARIABLES
    text,    \* what /proc/pressure/memory holds, {} when there is no such file
    daemon,  \* main() of ar_resourced: where it is, the level it saw last, why it ended
    call     \* the embedding program's evaluation under way: events still to deliver

pressureVars == <<text, daemon, call>>

Keys == {"avg10", "avg60", "avg300", "total"}

\* parse_psi_line: the name, then the four fields, each once, each a number in range.
LineParses(line, name) ==
    /\ line.name = name
    /\ Len(line.fields) = 4
    /\ {line.fields[i].key : i \in 1..Len(line.fields)} = Keys
    /\ \A i \in 1..Len(line.fields) :
           line.fields[i].value >= 0
               /\ (line.fields[i].key # "total" => line.fields[i].value <= 100)

Field(line, key) ==
    (CHOOSE f \in Range(line.fields) : f.key = key).value

\* alrios_psi_parse_memory: exactly the lines "some" and "full", in this order;
\* the pressure is the ten second average of "some".
Parse(lines) ==
    IF /\ Len(lines) = 2
       /\ LineParses(lines[1], "some")
       /\ LineParses(lines[2], "full")
    THEN {Field(lines[1], "avg10")}
    ELSE {}

\* alrios_psi_classify_memory
Classify(percent) ==
    IF percent >= Shedding THEN "shedding"
    ELSE IF percent >= Warning THEN "warning" ELSE "normal"

Valid(c) == c.name # 0 /\ c.pid > 0

\* candidate_is_worker, with the names of alrios_psi_is_core_daemon
Worker(c) ==
    Valid(c) /\ ~c.protected /\ c.tier # 0 /\ c.name \notin CoreNames

\* candidate_is_eligible
Eligible(c) == Worker(c) /\ c.allow /\ ~c.deny

\* compare_candidate_priority(a, b) < 0: the higher tier, the smaller name, the
\* smaller process id go first.
Before(a, b) ==
    \/ a.tier > b.tier
    \/ a.tier = b.tier /\ a.name < b.name
    \/ a.tier = b.tier /\ a.name = b.name /\ a.pid < b.pid

\* Mutant: the last eligible candidate wins.
MutSelectsLast(inventory) ==
    FoldLeft(LAMBDA best, c : IF Eligible(c) THEN <<c>> ELSE best,
             <<>>, inventory)

\* The loop of alrios_psi_select_candidate: a new candidate replaces the best
\* one so far only when it goes before it.
SelectCandidate(inventory) ==
    FoldLeft(LAMBDA best, c :
                 IF Eligible(c) /\ (best = <<>> \/ Before(c, best[1]))
                 THEN <<c>> ELSE best,
             <<>>, inventory)

\* One turn of the insertion sort of alrios_psi_evaluate: the key moves left
\* past everything it goes before.
Inserted(sorted, key) ==
    LET behind == {i \in 1..Len(sorted) : \A j \in i..Len(sorted) : Before(key, sorted[j])}
        at == IF behind = {} THEN Len(sorted) + 1
              ELSE CHOOSE i \in behind : \A j \in behind : i <= j
    IN  InsertAt(sorted, at, key)

Workers(inventory) ==
    FoldLeft(Inserted, <<>>, SelectSeq(inventory, Worker))

Event(type, who) == [type |-> type, who |-> who]

\* alrios_psi_evaluate up to its callbacks: the status it fails with before any
\* of them, and the events it hands out one after the other.
Evaluation(level, inventory) ==
    CASE level = "normal" -> [status |-> "ok", events |-> <<>>]
      [] level = "shedding" /\ inventory = <<>> ->
             [status |-> "argument", events |-> <<>>]
      [] level = "shedding" /\ inventory # <<>> ->
             LET best == SelectCandidate(inventory)
             IN  IF best = <<>> THEN [status |-> "no candidate", events |-> <<>>]
                 ELSE [status |-> "ok", events |-> <<Event("shed", best)>>]
      [] level = "warning" ->
             LET list == Workers(inventory)
             IN  [status |-> "ok",
                  events |-> IF list = <<>> THEN <<Event("warn", <<>>)>>
                             ELSE [i \in 1..Len(list) |-> Event("warn", <<list[i]>>)]]

Idle == [pc |-> "idle", level |-> "normal", inventory |-> <<>>,
         events |-> <<>>, heard |-> <<>>, status |-> "none"]

PressureInit ==
    /\ text \in {{t} : t \in Texts} \cup {{}}
    /\ daemon = [pc |-> "read", level |-> "normal", previous |-> "normal", end |-> "none"]
    /\ call = Idle

----------------------------------------------------------------------------
\* The kernel rewrites the file; without PSI there is none and there never is.
KernelUpdates ==
    /\ text # {}
    /\ \E t \in Texts : text' = {t}
    /\ UNCHANGED <<daemon, call>>

Ends(cause) == [daemon EXCEPT !.pc = "ended", !.end = cause]

\* The top of the loop: read_memory_path, and the exit when the file is missing,
\* cannot be read or does not parse.
DaemonReads ==
    /\ daemon.pc = "read"
    /\ \/ daemon' = Ends("unreadable")
       \/ /\ text # {}
          /\ \E t \in text : \E percent \in Parse(t) :
                 daemon' = [daemon EXCEPT !.pc = "evaluate", !.level = Classify(percent)]
    /\ UNCHANGED <<text, call>>

Announces == daemon.level \notin {daemon.previous, "normal"}

\* The rest of the turn: the evaluation of a level that is new, with neither
\* inventory nor count, its callback writing to stderr, and the status that
\* ends the daemon.
DaemonEvaluates ==
    /\ daemon.pc = "evaluate"
    /\ LET result == Evaluation(daemon.level, <<>>)
           going == [daemon EXCEPT !.pc = "sleep", !.previous = daemon.level]
       IN  \/ ~Announces /\ daemon' = going
           \/ /\ Announces /\ result.status \in {"ok", "no candidate"}
              /\ \/ daemon' = going
                 \/ result.events # <<>> /\ daemon' = Ends("notify")
           \/ /\ Announces /\ result.status \notin {"ok", "no candidate"}
              /\ daemon' = Ends(result.status)
    /\ UNCHANGED <<text, call>>

\* --once breaks out, a signal ends the loop after the sleep, and a failing
\* nanosleep ends the daemon.
DaemonSleeps ==
    /\ daemon.pc = "sleep"
    /\ \/ daemon' = [daemon EXCEPT !.pc = "read"]
       \/ \E cause \in {"signal", "sleep"} : daemon' = Ends(cause)
    /\ UNCHANGED <<text, call>>

\* An embedding program evaluates the sample it has just read.
CallEvaluates ==
    /\ call.pc = "idle"
    /\ \E t \in text : \E percent \in Parse(t) : \E inventory \in Inventories :
           LET result == Evaluation(Classify(percent), inventory)
           IN  call' = [Idle EXCEPT !.pc = IF result.events = <<>> THEN "done" ELSE "deliver",
                                    !.level = Classify(percent),
                                    !.inventory = inventory,
                                    !.events = result.events,
                                    !.status = result.status]
    /\ UNCHANGED <<text, daemon>>

\* One callback: it takes the event, and the evaluation ends when it fails.
CallDelivers ==
    /\ call.pc = "deliver"
    /\ \E fails \in BOOLEAN :
           call' = [call EXCEPT
               !.heard = Append(call.heard, Head(call.events)),
               !.events = Tail(call.events),
               !.pc = IF fails \/ Len(call.events) = 1 THEN "done" ELSE "deliver",
               !.status = IF fails THEN "notify" ELSE call.status]
    /\ UNCHANGED <<text, daemon>>

CallReturns ==
    /\ call.pc = "done"
    /\ call' = Idle
    /\ UNCHANGED <<text, daemon>>

PressureNext ==
    \/ KernelUpdates
    \/ DaemonReads \/ DaemonEvaluates \/ DaemonSleeps
    \/ CallEvaluates \/ CallDelivers \/ CallReturns

PressureSpec == PressureInit /\ [][PressureNext]_pressureVars

----------------------------------------------------------------------------
Levels == {"normal", "warning", "shedding"}
Statuses == {"none", "ok", "argument", "no candidate", "notify"}

\* The shape of the state of the library's caller and of the daemon.
PressureTypeOK ==
    /\ text \subseteq Texts
    /\ daemon.pc \in {"read", "evaluate", "sleep", "ended"}
    /\ {daemon.level, daemon.previous} \subseteq Levels
    /\ daemon.end \in {"none", "unreadable", "argument", "notify", "signal", "sleep"}
    /\ call.pc \in {"idle", "deliver", "done"}
    /\ call.level \in Levels /\ call.status \in Statuses

\* What the callbacks hear (psi.c:456 and psi.c:493): under the shedding threshold a single
\* process, one that may be shed, and none that may be shed goes before it;
\* under the warning threshold the workers of the inventory, each of them once,
\* in the order of their priority from the first on, and all of them unless a
\* callback failed.  A core daemon or a protected process is never named.
LeastImportantFirst ==
    LET heard == call.heard
        named == {i \in 1..Len(heard) : heard[i].who # <<>>}
        Who(i) == heard[i].who[1]
        listed == Range(call.inventory)
    IN  /\ \A i \in named :
               /\ Who(i) \in listed
               /\ ~Who(i).protected /\ Who(i).name \notin CoreNames
               /\ Who(i).tier # 0
        /\ call.level = "shedding" /\ heard # <<>> =>
               /\ Len(heard) = 1
               /\ Who(1).allow /\ ~Who(1).deny
               /\ \A c \in listed : Eligible(c) => ~Before(c, Who(1))
        /\ call.level = "warning" =>
               /\ \A i, j \in named : i < j => ~Before(Who(j), Who(i))
               /\ \A c \in listed : \A j \in named :
                      Worker(c) /\ Before(c, Who(j)) => \E i \in 1..(j - 1) : Who(i) = c
               /\ call.pc = "done" /\ call.status = "ok" =>
                      Len(heard) = IF SelectSeq(call.inventory, Worker) = <<>> THEN 1
                                   ELSE Len(SelectSeq(call.inventory, Worker))

\* ar_resourced outlives the shedding threshold: it reports that it was given
\* no inventory (the message at main.c:183) and goes on monitoring, so it ends only
\* for a signal or for a failure to read, to write or to sleep.
SheddingIsReported == daemon.end # "argument"
=============================================================================
