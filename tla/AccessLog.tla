----------------------------- MODULE AccessLog -----------------------------
(***************************************************************************)
(* The access log (access_log.c): a ring of the last lines in memory, from *)
(* which the monitoring protocol answers GET_LOG, and a file to which each *)
(* line is appended and which outlives the process.                        *)
(*                                                                         *)
(* Of a line its length is kept, the one it was to have and the one it has *)
(* after snprintf(), and a number that tells it from the others.           *)
(***************************************************************************)
EXTENDS Integers, Sequences

CONSTANTS
    LOG_RECENT_MAX,   \* places of the ring
    LOG_LINE_MAX,     \* bytes of a place
    Names,            \* lengths of the user's name; 0: nobody authenticated
    Targets,          \* lengths of "host:port"
    MaxLines          \* bound: the lines that are written

ASSUME AccessLogAssumption ==
    /\ LOG_RECENT_MAX \in Nat \ {0} /\ LOG_LINE_MAX \in Nat \ {0}
    /\ Names \subseteq Nat /\ Targets \subseteq Nat /\ MaxLines \in Nat

VARIABLES
    recent, recent_head, recent_count,
    log_file,         \* the file is open
    file,             \* its lines
    running,
    written, missed   \* history: the number of lines; a write to the file failed

ring == <<recent, recent_head, recent_count>>
vars == <<ring, log_file, file, running, written, missed>>

(* "YYYY-MM-DDTHH:MM:SSZ", and the only result that is logged, "OK".       *)
Stamp  == 20
Result == 2

Shown(name) == IF name = 0 THEN 1 ELSE name   \* "-"

Wanted(name, target) == Stamp + 1 + Shown(name) + 1 + target + 1 + Result

Smaller(a, b) == IF a < b THEN a ELSE b

(* snprintf() with LOG_LINE_MAX bytes, one of them the terminator.         *)
Line(n, name, target) ==
    [number |-> n, wanted |-> Wanted(name, target),
     kept |-> Smaller(Wanted(name, target), LOG_LINE_MAX - 1)]

Lengths == {Wanted(name, target) : name \in Names, target \in Targets}

Lines == [number : 1 .. MaxLines, wanted : Lengths,
          kept : {Smaller(l, LOG_LINE_MAX - 1) : l \in Lengths}]

Blank == [number |-> 0, wanted |-> 0, kept |-> 0]

Places == 0 .. LOG_RECENT_MAX - 1

Init ==
    /\ recent = [i \in Places |-> Blank] /\ recent_head = 0 /\ recent_count = 0
    /\ log_file = FALSE /\ file = <<>> /\ running = FALSE
    /\ written = 0 /\ missed = FALSE

(* access_log_open(): without the file the server goes on all the same.    *)
Open(opened) ==
    /\ ~running
    /\ running' = TRUE /\ log_file' = opened
    /\ UNCHANGED <<ring, file, written, missed>>

(* Faulty: the place to write is counted, the one after it is read.        *)
LastNext == recent_head

Last == (recent_head - 1 + LOG_RECENT_MAX) % LOG_RECENT_MAX

Counted == IF recent_count < LOG_RECENT_MAX THEN recent_count + 1 ELSE recent_count

(* access_log_entry(), which relay_on_arrival() calls for a connection     *)
(* that was made.  Whether fprintf() and fflush() fail is not looked at.   *)
Entry(name, target, fails) ==
    /\ running /\ written < MaxLines
    /\ written' = written + 1
    /\ recent' = [recent EXCEPT ![recent_head] = Line(written', name, target)]
    /\ recent_head' = (recent_head + 1) % LOG_RECENT_MAX
    /\ recent_count' = Counted
    /\ \/ ~log_file /\ UNCHANGED <<file, missed>>
       \/ log_file /\ fails /\ missed' = TRUE /\ UNCHANGED file
       \/ log_file /\ ~fails /\ file' = Append(file, recent'[Last']) /\ UNCHANGED missed
    /\ UNCHANGED <<log_file, running>>

(* access_log_close() at the end of main(), or the death of the process:   *)
(* what was in memory is gone.                                             *)
End ==
    /\ running
    /\ running' = FALSE /\ log_file' = FALSE /\ missed' = FALSE
    /\ recent' = [i \in Places |-> Blank] /\ recent_head' = 0 /\ recent_count' = 0
    /\ UNCHANGED <<file, written>>

Next ==
    \/ \E opened \in BOOLEAN : Open(opened)
    \/ \E name \in Names, target \in Targets, fails \in BOOLEAN : Entry(name, target, fails)
    \/ End

Spec == Init /\ [][Next]_vars

-----------------------------------------------------------------------------
(* What is read *)

(* Faulty: the ring is read from its first place.                          *)
StartAtZero == 0

Start == (recent_head - recent_count + LOG_RECENT_MAX) % LOG_RECENT_MAX

(* access_log_get_recent()                                                 *)
GetRecent(max) ==
    [i \in 1 .. Smaller(recent_count, max) |-> recent[(Start + (i - 1)) % LOG_RECENT_MAX]]

-----------------------------------------------------------------------------
(* Properties *)

(* Types; while the ring is not full its lines begin at place 0.           *)
TypeOK ==
    /\ recent \in [Places -> Lines \cup {Blank}]
    /\ recent_head \in Places /\ recent_count \in 0 .. LOG_RECENT_MAX
    /\ recent_count < LOG_RECENT_MAX => recent_head = recent_count
    /\ log_file \in BOOLEAN /\ running \in BOOLEAN /\ missed \in BOOLEAN
    /\ file \in Seq(Lines)
    /\ written \in 0 .. MaxLines

Promise == INSTANCE RecentLog WITH N <- LOG_RECENT_MAX, recent <- GetRecent(LOG_RECENT_MAX)

(* GET_LOG answers the most recent lines, oldest first, before and after   *)
(* the ring has wrapped (SPEC.md:272, SPEC.md:419; access_log_entry(),     *)
(* access_log_get_recent()).                                               *)
ImplementsRecentLog == Promise!Spec

(* While no write has failed, the file ends with the lines that are in     *)
(* memory, in the same order: what GET_LOG shows is on the disk            *)
(* (access_log.c:62-67, the line is taken out of the ring again).          *)
FileEndsWithRecent ==
    log_file /\ ~missed =>
        /\ Len(file) >= recent_count
        /\ SubSeq(file, Len(file) - recent_count + 1, Len(file)) = GetRecent(LOG_RECENT_MAX)
=============================================================================
