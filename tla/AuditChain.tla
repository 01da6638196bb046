----------------------------- MODULE AuditChain -----------------------------
(***************************************************************************)
(* The audit chain (delulu-broker/src/audit.rs): one directory of day      *)
(* files, each a list of lines, and an anchor that names the last record   *)
(* and the number of records.  Several processes append to it, one at a    *)
(* time under the append lock: the daemon, which promises a seq before its *)
(* record exists (TrackingSink in delulu/src/brokerd.rs), and sandboxed    *)
(* runs' hosts.  Readers take no lock until something looks wrong.         *)
(*                                                                         *)
(* A process may be stopped, and a write may fail, between any two writes. *)
(* A record's hash covers all of it, so its name stands for the hash; the  *)
(* length of a file is compared as its contents are.  What the shortcuts   *)
(* recover_fast and read_appended skip is what nobody has changed.         *)
(***************************************************************************)
EXTENDS Integers, SequencesExt

CONSTANTS
  Writer,     \* processes that append
  Daemon,     \* the one that promises seqs
  MaxDay,     \* days, and day files, are 1 .. MaxDay
  MaxRecords, \* bound on the records made
  MaxCount,   \* bound on the daemon's counter
  Free,       \* the lock is not held
  Faults      \* what may go wrong: "cut" between two writes, "other day" there
              \* when a handle stands on another day file, "tear" within a
              \* line, "last tear" within one that nobody writes after

ASSUME AuditConstants ==
  /\ Daemon \in Writer
  /\ Free \notin Writer
  /\ {MaxDay, MaxRecords, MaxCount} \subseteq Nat \ {0}
  /\ Faults \subseteq {"cut", "other day", "tear", "last tear"}

VARIABLES
  file,       \* day -> the lines of its file; empty when there is none
  anchor,     \* ANCHOR.json, or NoAnchor when it is missing or empty
  lock,       \* append.lock
  pc,         \* writer -> where it is
  handle,     \* writer -> what its AuditLog remembers of the chain
  count,      \* the daemon's own audit counter
  promise,    \* writer -> the seq it asks for
  rec,        \* writer -> the record it is writing
  made,       \* records made so far: the next one's name
  acked,      \* what writers were told is recorded: name, and seq asked for
  lost,       \* seqs the daemon answered with, saying they name no record
  cut,        \* was a write ever cut short
  reader      \* a verify under way

disk == <<file, anchor>>
answers == <<acked, lost>>
writers == <<lock, pc, handle, count, promise, rec, made>>
vars == <<disk, writers, answers, cut, reader>>

Day == 1 .. MaxDay
Genesis == 0
NoAnchor == [head |-> -1, records |-> 0]
Record == [id : Nat, seq : Nat, prev : Nat]
NoRecord == [id |-> -1, seq |-> 0, prev |-> 0]

\* A line holds a record or not (a header, or text that does not parse), and
\* has its line break or not.
Header == [rec |-> NoRecord, parses |-> TRUE, closed |-> TRUE]
Torn == [rec |-> NoRecord, parses |-> FALSE, closed |-> FALSE]
Line(r) == [rec |-> r, parses |-> TRUE, closed |-> FALSE]
HoldsRecord(line) == line.parses /\ line.rec # NoRecord

\* `append_line`: what follows a line without its break runs on in that line.
AddLine(lines, line) ==
  IF lines # <<>> /\ ~Last(lines).closed
  THEN Append(Front(lines), Torn)
  ELSE Append(lines, line)

CloseLine(lines) == [lines EXCEPT ![Len(lines)].closed = TRUE]

-----------------------------------------------------------------------------
(* What the files say.                                                     *)

RecordsOf(lines) ==
  LET held[i \in 0 .. Len(lines)] ==
        IF i = 0 THEN <<>>
        ELSE IF HoldsRecord(lines[i]) THEN Append(held[i - 1], lines[i].rec)
        ELSE held[i - 1]
  IN held[Len(lines)]

Chain(files) == FlattenSeq([d \in Day |-> RecordsOf(files[d])])

HeadOf(chain) == IF chain = <<>> THEN Genesis ELSE Last(chain).id
TopOf(chain) == Max({0} \cup {chain[i].seq : i \in DOMAIN chain})
NewestOf(files) == Max({0} \cup {d \in Day : files[d] # <<>>})
LinesOf(files, d) == IF d = 0 THEN <<>> ELSE files[d]

AnchorOf(chain) == [head |-> HeadOf(chain), records |-> Len(chain)]

\* (mutant) whatever the anchor says is overwritten.
AgreesAnyway(a, chain) == a = a /\ chain = chain

\* A missing anchor agrees with anything.
Agrees(a, chain) == a = NoAnchor \/ a = AnchorOf(chain)

\* What a recovery reads off the files.
Recovered ==
  LET chain == Chain(file)
  IN [head |-> HeadOf(chain), records |-> Len(chain), top |-> TopOf(chain),
      day |-> NewestOf(file), tail |-> LinesOf(file, NewestOf(file))]

\* Nobody has moved the chain since this handle last touched it.
Current(w) ==
  /\ anchor = [head |-> handle[w].head, records |-> handle[w].records]
  /\ handle[w].tail = LinesOf(file, handle[w].day)
  /\ handle[w].day = 0 => NewestOf(file) = 0

\* (mutant) the cached head trusted, as before AUDIT-WRITERS-1.
CatchUpNever(w) ==
  /\ handle' = handle
  /\ anchor' = anchor

\* `catch_up`: nothing to do, or the files decide and the anchor is renewed.
CatchUp(w) ==
  \/ /\ Current(w)
     /\ UNCHANGED <<handle, anchor>>
  \/ /\ ~Current(w)
     /\ Agrees(anchor, Chain(file))
     /\ handle' = [handle EXCEPT ![w] = Recovered]
     /\ anchor' = AnchorOf(Chain(file))

Refused(w) == ~Current(w) /\ ~Agrees(anchor, Chain(file))

-----------------------------------------------------------------------------
(* One append, step by step.                                               *)

Goto(w, label) == pc' = [pc EXCEPT ![w] = label]

\* `open`: a recovery under the lock.  A restarted daemon counts from 1.
Open(w) ==
  /\ pc[w] = "down"
  /\ lock = Free
  /\ Agrees(anchor, Chain(file))
  /\ handle' = [handle EXCEPT ![w] = Recovered]
  /\ anchor' = AnchorOf(Chain(file))
  /\ count' = IF w = Daemon THEN 1 ELSE count
  /\ Goto(w, "idle")
  /\ UNCHANGED <<file, lock, promise, rec, made, answers, cut, reader>>

\* (mutant) the lock taken from a writer thought dead, as before
\* AUDIT-LOCK-TAKEOVER-1.
TakeOver(w) ==
  /\ pc[w] = "idle"
  /\ lock' = w
  /\ Goto(w, "holds")
  /\ UNCHANGED <<disk, handle, count, promise, rec, made, answers, cut, reader>>

Take(w) ==
  /\ pc[w] = "idle"
  /\ lock = Free
  /\ lock' = w
  /\ Goto(w, "holds")
  /\ UNCHANGED <<disk, handle, count, promise, rec, made, answers, cut, reader>>

\* The wait for the lock ran out.  The daemon's operation keeps the seq of its
\* own count; a host's append fails.
GiveUp(w) ==
  /\ pc[w] = "idle"
  /\ lock # Free
  /\ w = Daemon
  /\ count <= MaxCount
  /\ lost' = lost \cup {count}
  /\ count' = count + 1
  /\ UNCHANGED <<disk, lock, pc, handle, promise, rec, made, acked, cut, reader>>

\* (mutant) the daemon's own count, without the chain's floor.
PromiseOwnCount(w) ==
  /\ pc[w] = "holds"
  /\ count <= MaxCount
  /\ promise' = [promise EXCEPT ![w] = IF w = Daemon THEN count ELSE 0]
  /\ count' = IF w = Daemon THEN count + 1 ELSE count
  /\ Goto(w, "promised")
  /\ UNCHANGED <<disk, handle, lock, rec, made, answers, cut, reader>>

\* `take_seq` takes the chain's next seq as a floor, when it can be had; a
\* host leaves the choice to the chain.
Promise(w) ==
  /\ pc[w] = "holds"
  /\ count <= MaxCount
  /\ Goto(w, "promised")
  /\ \/ /\ w = Daemon
        /\ CatchUp(w)
        /\ promise' = [promise EXCEPT ![w] = Max({count, handle'[w].top + 1})]
        /\ count' = promise'[w] + 1
     \/ /\ w = Daemon
        /\ Refused(w)
        /\ promise' = [promise EXCEPT ![w] = count]
        /\ count' = count + 1
        /\ UNCHANGED <<handle, anchor>>
     \/ /\ w # Daemon
        /\ promise' = [promise EXCEPT ![w] = 0]
        /\ UNCHANGED <<handle, anchor, count>>
  /\ UNCHANGED <<file, lock, rec, made, answers, cut, reader>>

\* (mutant) the seq asked for, not settled under the lock.
SettledSeqAsAsked(w) == promise[w]

SettledSeq(w) == Max({promise[w], handle'[w].top + 1})

\* `append_under`, before it writes.
Settle(w) ==
  /\ pc[w] = "promised"
  /\ made < MaxRecords
  /\ CatchUp(w)
  /\ rec' = [rec EXCEPT ![w] = [id |-> made + 1, seq |-> SettledSeq(w),
                                prev |-> handle'[w].head]]
  /\ made' = made + 1
  /\ Goto(w, "filing")
  /\ UNCHANGED <<file, lock, count, promise, answers, cut, reader>>

\* (mutant) filed under its own day, as before AUDIT-DAY-1.
FilingDayOfStamp(w, stamp) == stamp

\* The file follows the chain, never falls behind it.
FilingDay(w, stamp) == Max({stamp, handle[w].day})

\* The header of a new day file, and then the record; a record's stamp may be
\* of any day, whenever it was taken.
OpenDay(w, stamp) ==
  LET day == FilingDay(w, stamp)
  IN
  /\ pc[w] = "filing"
  /\ file' = IF file[day] = <<>> THEN [file EXCEPT ![day] = <<Header>>] ELSE file
  /\ handle' = [handle EXCEPT ![w].day = day]
  /\ Goto(w, "opened")
  /\ UNCHANGED <<anchor, lock, count, promise, rec, made, answers, cut, reader>>

WriteLine(w) ==
  LET day == handle[w].day
  IN
  /\ pc[w] = "opened"
  /\ file' = [file EXCEPT ![day] = AddLine(@, Line(rec[w]))]
  /\ Goto(w, "lined")
  /\ UNCHANGED <<anchor, lock, handle, count, promise, rec, made, answers, cut, reader>>

\* The line break; then the handle moves on.
WriteBreak(w) ==
  LET day == handle[w].day
  IN
  /\ pc[w] = "lined"
  /\ file' = [file EXCEPT ![day] = CloseLine(@)]
  /\ handle' = [handle EXCEPT ![w] =
                  [head |-> rec[w].id, records |-> @.records + 1,
                   top |-> rec[w].seq, day |-> day, tail |-> file'[day]]]
  /\ Goto(w, "closed")
  /\ UNCHANGED <<anchor, lock, count, promise, rec, made, answers, cut, reader>>

\* `write_anchor` empties the file and then fills it.
EmptyAnchor(w) ==
  /\ pc[w] = "closed"
  /\ anchor' = NoAnchor
  /\ Goto(w, "emptied")
  /\ UNCHANGED <<file, lock, handle, count, promise, rec, made, answers, cut, reader>>

WriteAnchor(w) ==
  /\ pc[w] = "emptied"
  /\ anchor' = [head |-> handle[w].head, records |-> handle[w].records]
  /\ acked' = acked \cup {[id |-> rec[w].id, seq |-> rec[w].seq, asked |-> promise[w]]}
  /\ Goto(w, "done")
  /\ UNCHANGED <<file, lock, handle, count, promise, rec, made, lost, cut, reader>>

\* The next record of the same request, or the end of it.
Another(w) ==
  /\ pc[w] = "done"
  /\ w = Daemon
  /\ Goto(w, "holds")
  /\ UNCHANGED <<disk, lock, handle, count, promise, rec, made, answers, cut, reader>>

Release(w) ==
  /\ pc[w] = "done"
  /\ lock' = Free
  /\ Goto(w, "idle")
  /\ UNCHANGED <<disk, handle, count, promise, rec, made, answers, cut, reader>>

\* The line is written and its anchor is not.
Unanchored(w) == pc[w] \in {"lined", "closed", "emptied"}

\* A handle stands on another day file, where it sees no change: on a later one
\* with no record yet, or on an earlier one when the record is its file's first.
LeavesAside(w) ==
  \E v \in Writer :
    /\ pc[v] # "down"
    /\ \/ handle[v].day > handle[w].day
       \/ /\ handle[v].day \in 1 .. handle[w].day - 1
          /\ Len(RecordsOf(file[handle[w].day])) = 1

MayCut(w) == "cut" \in Faults /\ (LeavesAside(w) => "other day" \in Faults)

\* The chain is refused, or a write fails: nothing after it is done, and the
\* process goes on.  What the daemon answers carries the seq it promised.
Fail(w) ==
  /\ \/ pc[w] = "promised" /\ Refused(w)
     \/ pc[w] = "opened"
     \/ Unanchored(w) /\ MayCut(w)
  /\ cut' = (cut \/ Unanchored(w))
  /\ lost' = IF w = Daemon THEN lost \cup {promise[w]} ELSE lost
  /\ Goto(w, "done")
  /\ UNCHANGED <<disk, lock, handle, count, promise, rec, made, acked, reader>>

MayTear ==
  \/ "tear" \in Faults
  \/ "last tear" \in Faults /\ made = MaxRecords

\* A write that stops within its line.
Tear(w) ==
  LET day == handle[w].day
  IN
  /\ MayTear
  /\ pc[w] = "opened"
  /\ file' = [file EXCEPT ![day] = AddLine(@, Torn)]
  /\ cut' = TRUE
  /\ lost' = IF w = Daemon THEN lost \cup {promise[w]} ELSE lost
  /\ Goto(w, "done")
  /\ UNCHANGED <<anchor, lock, handle, count, promise, rec, made, acked, reader>>

\* The process ends, and the operating system frees its lock.
Die(w) ==
  /\ pc[w] # "down"
  /\ Unanchored(w) => MayCut(w)
  /\ lock' = IF lock = w THEN Free ELSE lock
  /\ cut' = (cut \/ Unanchored(w))
  /\ Goto(w, "down")
  /\ UNCHANGED <<disk, handle, count, promise, rec, made, answers, reader>>

-----------------------------------------------------------------------------
(* `verify`: the files, one after the other, then the anchor.  A pass that *)
(* fails is read again under the lock, if the lock is free in time.        *)

Linked(chain) ==
  \A i \in DOMAIN chain :
    chain[i].prev = IF i = 1 THEN Genesis ELSE chain[i - 1].id

Verifies(files, a) ==
  /\ \A d \in Day : \A i \in DOMAIN files[d] : files[d][i].parses
  /\ Linked(Chain(files))
  /\ Agrees(a, Chain(files))

NoReader == [next |-> 0, files |-> [d \in Day |-> <<>>], verdict |-> "none"]

StartVerify ==
  /\ reader.next = 0
  /\ reader' = [NoReader EXCEPT !.next = 1]
  /\ UNCHANGED <<disk, writers, answers, cut>>

ReadDay ==
  /\ reader.next \in Day
  /\ reader' = [reader EXCEPT !.files[reader.next] = file[reader.next],
                              !.next = @ + 1]
  /\ UNCHANGED <<disk, writers, answers, cut>>

\* (mutant) the first pass believed.
ReadAnchorOnce ==
  /\ reader.next = MaxDay + 1
  /\ reader' = [NoReader EXCEPT !.verdict =
                  IF Verifies(reader.files, anchor) THEN "whole" ELSE "broken"]
  /\ UNCHANGED <<disk, writers, answers, cut>>

ReadAnchor ==
  /\ reader.next = MaxDay + 1
  /\ reader' = IF Verifies(reader.files, anchor)
               THEN [NoReader EXCEPT !.verdict = "whole"]
               ELSE [NoReader EXCEPT !.next = MaxDay + 2]
  /\ UNCHANGED <<disk, writers, answers, cut>>

\* Nothing is written while the reader holds the lock: the second reading is
\* one step.
ReadAgain ==
  /\ reader.next = MaxDay + 2
  /\ lock = Free
  /\ reader' = [NoReader EXCEPT !.verdict =
                  IF Verifies(file, anchor) THEN "whole" ELSE "broken"]
  /\ UNCHANGED <<disk, writers, answers, cut>>

BelieveFirst ==
  /\ reader.next = MaxDay + 2
  /\ lock # Free
  /\ reader' = [NoReader EXCEPT !.verdict = "unconfirmed"]
  /\ UNCHANGED <<disk, writers, answers, cut>>

-----------------------------------------------------------------------------
NoHandle == [head |-> Genesis, records |-> 0, top |-> 0, day |-> 0, tail |-> <<>>]

Init ==
  /\ file = [d \in Day |-> <<>>]
  /\ anchor = NoAnchor
  /\ lock = Free
  /\ pc = [w \in Writer |-> "down"]
  /\ handle = [w \in Writer |-> NoHandle]
  /\ count = 1
  /\ promise = [w \in Writer |-> 0]
  /\ rec = [w \in Writer |-> NoRecord]
  /\ made = 0
  /\ acked = {}
  /\ lost = {}
  /\ cut = FALSE
  /\ reader = NoReader

Step(w) ==
  \/ Open(w)
  \/ Take(w)
  \/ GiveUp(w)
  \/ Promise(w)
  \/ Settle(w)
  \/ \E stamp \in Day : OpenDay(w, stamp)
  \/ WriteLine(w)
  \/ WriteBreak(w)
  \/ EmptyAnchor(w)
  \/ WriteAnchor(w)
  \/ Another(w)
  \/ Release(w)
  \/ Fail(w)
  \/ Tear(w)
  \/ Die(w)

Verify == StartVerify \/ ReadDay \/ ReadAnchor \/ ReadAgain \/ BelieveFirst

Next == Verify \/ \E w \in Writer : Step(w)

Spec == Init /\ [][Next]_vars

-----------------------------------------------------------------------------
(* Properties.                                                             *)

\* Types, and who may be where: past `holds` there is the one writer that
\* holds the lock.
AuditTypeOK ==
  /\ lock \in Writer \cup {Free}
  /\ \A w \in Writer : pc[w] \notin {"down", "idle"} => lock = w
  /\ \A d \in Day : \A i \in DOMAIN file[d] :
        file[d][i].rec \in Record \cup {NoRecord}
  /\ anchor \in [head : Nat, records : Nat] \cup {NoAnchor}
  /\ \A w \in Writer : handle[w].day \in Day \cup {0}
  /\ made <= MaxRecords

\* Every record names the one before it, across files and writers, whatever
\* day each was stamped with (AUDIT-WRITERS-1 and AUDIT-DAY-1: append_under).
ChainLinked == Linked(Chain(file))

\* No seq is given twice, and none goes back, although the daemon numbers
\* ahead and starts over at every start (AUDIT-SEQ-1).
SeqsClimb ==
  LET chain == Chain(file)
  IN \A i, j \in DOMAIN chain : i < j => chain[i].seq < chain[j].seq

\* A seq the daemon stamped before the record existed is the seq of the record
\* (RW 4.48: the lock is held from the one to the other).
PromiseKept == \A a \in acked : a.asked # 0 => a.seq = a.asked

\* The chain only grows at its end.
AppendOnly == [][IsPrefix(Chain(file), Chain(file'))]_vars

\* The anchor is there, and names another chain than the files hold.
AnchorDiffers == anchor # NoAnchor /\ anchor # AnchorOf(Chain(file))

\* A chain that may have lost its last record is not built on, and its anchor,
\* the only evidence of it, is not written over: every later writer is refused
\* (recover's comment, and append_under's on the order of its writes).
NeverBuiltOn ==
  [][(AnchorDiffers /\ \A w \in Writer : ~Unanchored(w))
       => anchor' = anchor /\ Chain(file') = Chain(file)]_vars

\* `verify`, once it has read under the lock, calls a chain broken only if a
\* write was cut short (AUDIT-WRITERS-1's second reading).
AlarmsAreReal == reader.verdict = "broken" => cut

\* Who is told that a record was written finds it on the chain, then and ever
\* after: what lets the daemon answer for operations it recorded (invariant
\* 26), and what a partial write on a full disk must not undo (write_anchor).
AckedStays ==
  \A a \in acked : \E i \in DOMAIN Chain(file) : Chain(file)[i].id = a.id

\* What verify's comment says of its alarm: a pass that fails is read again
\* under the lock before it is believed.
NoFalseAlarm == reader.verdict \in {"broken", "unconfirmed"} => cut

\* What the daemon says of an operation it could not record: its audit seq
\* names no record.
LostNamesNoRecord ==
  \A i \in DOMAIN Chain(file) : Chain(file)[i].seq \notin lost

\* One chain, whoever writes and whatever each had cached: records linked, their
\* seqs climbing, and each seq promised ahead the seq of its record.
ChainIsOne == ChainLinked /\ SeqsClimb /\ PromiseKept

\* The chain loses nothing: it grows at its end only, and what was answered as
\* recorded is found on it ever after.
ChainKeeps == []AckedStays /\ AppendOnly
=============================================================================
