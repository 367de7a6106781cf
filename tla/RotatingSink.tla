---------------------------- MODULE RotatingSink ----------------------------
(***************************************************************************)
(* The size-rotating file sink (src/rotating_sink.cpp) over a file         *)
(* system, one action per system call.                                     *)
(*                                                                         *)
(* write() and flush() run under the sink's mutex, so the calls of all     *)
(* threads form one sequence; what interleaves with the system calls of a  *)
(* write are crashes of the process and another process that appends to    *)
(* the same path.  System calls may fail.                                  *)
(*                                                                         *)
(* A file is the sequence of its bytes, each represented by the number of  *)
(* the line it belongs to (EXT for a foreign byte).  Index 0 stands for    *)
(* the base path, i for indexed_path(path, i).  The sink's descriptor      *)
(* always refers to the file at index 0: nobody renames it while open.     *)
(***************************************************************************)
EXTENDS Naturals, Sequences, FiniteSets, SequencesExt

CONSTANTS
    MaxBytes,    \* max_bytes
    FileCounts,  \* values of max_files a program may choose
    Lengths,     \* lengths of the lines that are written
    MaxLines,    \* bound: number of write() calls
    Incidents,   \* what may go wrong in a run, see Kinds
    MaxIncidents,\* bound: number of incidents, all kinds together
    NONE         \* no such file

\* Failing system calls, the death of the process, another sink made for the
\* same path after this one's destruction, another process that appends.
Kinds == {"short", "writev", "unlink", "rename", "open", "crash", "restart",
          "foreign"}

ASSUME ConstantsAssumption ==
    /\ MaxBytes \in Nat \ {0}
    /\ FileCounts \subseteq Nat \ {0} /\ IsFiniteSet(FileCounts) /\ FileCounts # {}
    /\ Lengths \subseteq Nat \ {0} /\ IsFiniteSet(Lengths) /\ Lengths # {}
    /\ Incidents \subseteq Kinds
    /\ MaxLines \in Nat /\ MaxIncidents \in Nat
    /\ NONE \notin Seq(0 .. MaxLines)

EXT == 0

VARIABLES
    maxFiles,  \* max_files_
    files,     \* the directory: files[i] is the content at index i, or NONE
    pc,        \* the next system call of the process, "idle" or "down"
    fd,        \* the descriptor: is it open, with O_APPEND, and its offset
    bytes,     \* bytes_written_
    pending,   \* bytes of the current line that writev has still to write
    shift,     \* the loop index i of the rename chain
    lines,     \* number of write() calls so far
    faults,    \* number of failures so far
    crashes,   \* number of crashes so far
    restarts,  \* number of orderly destructions so far
    ext,       \* number of foreign bytes so far
    evicted,   \* history: bytes removed by unlink
    intact,    \* history: every rename succeeded
    cleared    \* history: every rotation moved or removed the active file

vars == <<maxFiles, files, pc, fd, bytes, pending, shift, lines, faults, crashes,
          restarts, ext, evicted, intact, cleared>>
bounds == <<lines, faults, crashes, restarts, ext>>
fixed == <<maxFiles, intact, cleared>>

Names == 0 .. Max(FileCounts)
Content(i) == IF files[i] = NONE THEN <<>> ELSE files[i]

Closed == [open |-> FALSE, append |-> FALSE, off |-> 0]

\* write(2) at offset off: overwrites what is there, extends what is not.
PutAt(file, off, data) ==
    SubSeq(file, 1, off) \o data
       \o SubSeq(file, off + Len(data) + 1, Len(file))

MayHappen(k) ==
    k \in Incidents /\ faults + crashes + restarts + ext < MaxIncidents

Init ==
    /\ maxFiles \in FileCounts
    /\ intact = TRUE /\ cleared = TRUE
    /\ files = [i \in Names |-> NONE]
    /\ pc = "down"
    /\ fd = Closed
    /\ bytes = 0
    /\ pending = <<>>
    /\ shift = 0
    /\ lines = 0 /\ faults = 0 /\ crashes = 0 /\ restarts = 0 /\ ext = 0
    /\ evicted = 0

-----------------------------------------------------------------------------
(* A definition named after a fault, placed before the one it deviates     *)
(* from, is that definition with a plausible bug; nothing here uses it.    *)

\* What the constructor finds in the file.  The stat behind it does not fail
\* here, and the path is a regular file.
SizeIgnored == 0
SizeAtOpen == Len(Content(0))

\* The constructor, in a new process: open with O_APPEND, count what is there.
Construct ==
    /\ pc = "down"
    /\ pc' = "idle"
    /\ \/ /\ files' = [files EXCEPT ![0] = Content(0)]
          /\ fd' = [open |-> TRUE, append |-> TRUE, off |-> 0]
          /\ bytes' = SizeAtOpen
          /\ UNCHANGED faults
       \/ /\ MayHappen("open")
          /\ faults' = faults + 1
          /\ fd' = Closed
          /\ bytes' = 0
          /\ UNCHANGED files
    /\ UNCHANGED <<fixed, pending, shift, lines, crashes, restarts, ext, evicted>>

\* write() of a line: counted before it is written.
Write ==
    /\ pc = "idle" /\ lines < MaxLines
    /\ lines' = lines + 1
    /\ \/ /\ fd.open
          /\ \E n \in Lengths :
               /\ bytes' = bytes + n
               /\ pending' = [i \in 1 .. n |-> lines + 1]
          /\ pc' = "writev"
       \/ ~fd.open /\ UNCHANGED <<bytes, pending, pc>>
    /\ UNCHANGED <<fixed, files, fd, shift, faults, crashes, restarts, ext, evicted>>

\* Where write() goes once writev_all() is done: two off-by-one variants first.
AfterWritevLate == IF bytes > MaxBytes THEN "close" ELSE "idle"
AfterWritevEarly == IF bytes + 1 >= MaxBytes THEN "close" ELSE "idle"
AfterWritev == IF bytes >= MaxBytes THEN "close" ELSE "idle"

\* Where the kernel puts the bytes: at the end, if the descriptor says so.
OffsetWithoutAppend == fd.off
Offset == IF fd.append THEN Len(Content(0)) ELSE fd.off

\* One writev of the loop: all that is left, or a short count.
Writev ==
    /\ pc = "writev"
    /\ \E k \in 1 .. Len(pending) :
         /\ k < Len(pending) => MayHappen("short")
         /\ faults' = IF k < Len(pending) THEN faults + 1 ELSE faults
         /\ files' = [files EXCEPT ![0] = PutAt(@, Offset, SubSeq(pending, 1, k))]
         /\ fd' = [fd EXCEPT !.off = Offset + k]
         /\ pending' = SubSeq(pending, k + 1, Len(pending))
         /\ pc' = IF k < Len(pending) THEN "writev" ELSE AfterWritev
    /\ UNCHANGED <<fixed, bytes, shift, lines, crashes, restarts, ext, evicted>>

\* writev fails: writev_all() gives up the rest of the line.
WritevFails ==
    /\ pc = "writev" /\ MayHappen("writev")
    /\ faults' = faults + 1
    /\ pending' = <<>>
    /\ pc' = AfterWritev
    /\ UNCHANGED <<fixed, files, fd, bytes, shift, lines, crashes, restarts, ext, evicted>>

-----------------------------------------------------------------------------
(* rotate_locked()                                                         *)

\* close(2) of the active file; max_files_ = 1 has no chain to shift.
Close ==
    /\ pc = "close"
    /\ fd' = Closed
    /\ pc' = IF maxFiles >= 2 THEN "eldest" ELSE "unlink"
    /\ UNCHANGED <<fixed, files, bytes, pending, shift, bounds, evicted>>

\* unlink(2), whose result is ignored.
Evict(i) ==
    /\ files' = [files EXCEPT ![i] = NONE]
    /\ evicted' = evicted + Len(Content(i))

UnlinkFails ==
    /\ MayHappen("unlink")
    /\ faults' = faults + 1
    /\ UNCHANGED <<files, evicted>>

\* The index of the eldest file, where the rename chain begins; max_files
\* counts the active file, the faulty variant does not.
EldestTooHigh == maxFiles
Eldest == maxFiles - 1

\* unlink of the eldest file.
RemoveEldest ==
    /\ pc = "eldest"
    /\ \/ Evict(Eldest) /\ UNCHANGED faults
       \/ UnlinkFails
    /\ shift' = Eldest
    /\ pc' = "shift"
    /\ UNCHANGED <<fixed, fd, bytes, pending, lines, crashes, restarts, ext>>

\* The directory after a successful rename.
LinkedInstead(from, to) == [files EXCEPT ![to] = files[from]]
Renamed(from, to) == [files EXCEPT ![to] = files[from], ![from] = NONE]

\* rename(2): replaces the target; a missing source changes nothing, and
\* every result is ignored.
Rename(from, to) ==
    \/ /\ files' = IF files[from] = NONE THEN files
                   ELSE Renamed(from, to)
       /\ UNCHANGED <<faults, intact>>
    \/ /\ MayHappen("rename")
       /\ faults' = faults + 1
       /\ intact' = FALSE
       /\ UNCHANGED files

\* The loop shifting index i-1 to i, for i = max_files-1 down to 2.
Shift ==
    /\ pc = "shift" /\ shift >= 2
    /\ Rename(shift - 1, shift)
    /\ shift' = shift - 1
    /\ UNCHANGED <<maxFiles, cleared, pc, fd, bytes, pending, lines, crashes, restarts,
                   ext, evicted>>

\* The active file becomes index 1.
RenameBase ==
    /\ pc = "shift" /\ shift < 2
    /\ Rename(0, 1)
    /\ cleared' = (cleared /\ faults' = faults)
    /\ shift' = 0
    /\ pc' = "reopen"
    /\ UNCHANGED <<maxFiles, fd, bytes, pending, lines, crashes, restarts, ext, evicted>>

\* max_files = 1: the active file is removed.
UnlinkBase ==
    /\ pc = "unlink"
    /\ \/ Evict(0) /\ UNCHANGED <<faults, cleared>>
       \/ UnlinkFails /\ cleared' = FALSE
    /\ pc' = "reopen"
    /\ UNCHANGED <<maxFiles, intact, fd, bytes, pending, shift, lines, crashes,
                   restarts, ext>>

\* The fresh file: O_CREAT and O_TRUNC, but no O_APPEND.
Reopen ==
    /\ pc = "reopen"
    /\ bytes' = 0
    /\ pc' = "idle"
    /\ \/ /\ files' = [files EXCEPT ![0] = <<>>]
          /\ fd' = [open |-> TRUE, append |-> FALSE, off |-> 0]
          /\ UNCHANGED faults
       \/ /\ MayHappen("open")
          /\ faults' = faults + 1
          /\ UNCHANGED <<files, fd>>
    /\ UNCHANGED <<fixed, pending, shift, lines, crashes, restarts, ext, evicted>>

-----------------------------------------------------------------------------
(* The environment                                                         *)

\* The process dies between two system calls; the files stay as they are.
Crash ==
    /\ pc # "down" /\ MayHappen("crash")
    /\ crashes' = crashes + 1
    /\ pc' = "down"
    /\ fd' = Closed
    /\ bytes' = 0 /\ pending' = <<>> /\ shift' = 0
    /\ UNCHANGED <<fixed, files, lines, faults, restarts, ext, evicted>>

\* The destructor; another sink may be made for the same path later.
Destroy ==
    /\ pc = "idle" /\ MayHappen("restart")
    /\ restarts' = restarts + 1
    /\ pc' = "down"
    /\ fd' = Closed /\ bytes' = 0
    /\ UNCHANGED <<fixed, files, pending, shift, lines, faults, crashes, ext, evicted>>

\* Another process appends a byte at the base path (O_APPEND | O_CREAT).
ExternalAppend ==
    /\ MayHappen("foreign")
    /\ ext' = ext + 1
    /\ files' = [files EXCEPT ![0] = Append(Content(0), EXT)]
    /\ UNCHANGED <<fixed, pc, fd, bytes, pending, shift, lines, faults, crashes, restarts, evicted>>

\* Nothing is under way: the program may leave the sink alone.
Idle == pc = "idle" /\ UNCHANGED vars

Step ==
    \/ Construct \/ Writev \/ WritevFails \/ Close \/ RemoveEldest \/ Shift
    \/ RenameBase \/ UnlinkBase \/ Reopen

Next == Step \/ Write \/ Destroy \/ Crash \/ ExternalAppend \/ Idle

Spec == Init /\ [][Next]_vars

-----------------------------------------------------------------------------
(* Properties                                                              *)

Cells == 0 .. MaxLines

\* Type invariant; the chain never grows past max_files files.
TypeOK ==
    /\ files \in [Names -> Seq(Cells) \cup {NONE}]
    /\ maxFiles \in FileCounts /\ {intact, cleared} \subseteq BOOLEAN
    /\ \A i \in Names : i >= maxFiles => files[i] = NONE
    /\ pc \in {"down", "idle", "writev", "close", "eldest", "shift", "unlink", "reopen"}
    /\ fd \in [open : BOOLEAN, append : BOOLEAN, off : Nat]
    /\ bytes \in Nat
    /\ pending \in Seq(Cells)
    /\ shift \in Names
    /\ lines \in 0 .. MaxLines
    /\ {faults, crashes, restarts, ext} \subseteq 0 .. MaxIncidents
    /\ evicted \in Nat

\* The sink's own bytes in a file, and in the chain from the eldest file to the
\* active one.
OwnOf(f) ==
    LET own[n \in 0 .. Len(f)] ==
          IF n = 0 THEN <<>>
          ELSE IF f[n] = EXT THEN own[n - 1] ELSE Append(own[n - 1], f[n])
    IN  own[Len(f)]
OwnBytes == FlattenSeq([i \in 1 .. maxFiles |-> OwnOf(Content(maxFiles - i))])

\* With short and failing writes, failing opens and unlinks, foreign appends and
\* crashes at any system call of a rotation, the sink's bytes in the chain, read
\* from the eldest file to the active one, are always the tail of what it wrote,
\* in order: no step of the rename chain, and no foreign byte, duplicates, swaps
\* or drops anything but the eldest bytes.  This ends with the first rename
\* that fails, whose result the sink ignores.
RetainedLog == INSTANCE TailLog WITH log <- IF intact THEN OwnBytes ELSE <<>>
TailSpec == RetainedLog!Spec

\* The lines of the sink that have bytes in a file.
Own(i) == ToSet(Content(i)) \ {EXT}

\* Even failing renames and unlinks only lose bytes: what is left of the sink's lines is in
\* order from the eldest file to the active one, nothing twice, and no line is
\* split between two files.
LinesInOrder ==
    /\ \A i \in Names : \A p, q \in DOMAIN Content(i) :
          p < q /\ EXT \notin {Content(i)[p], Content(i)[q]}
            => Content(i)[p] <= Content(i)[q]
    /\ \A i, j \in Names :
          i > j => \A c \in Own(i), d \in Own(j) : c < d

\* A file outgrows the threshold by less than one line, plus the foreign bytes,
\* plus one line for every death of the process between a write and the rotation
\* it had earned.  Once a rotation has failed to take the active file away (the
\* rename of the base path, or with max_files = 1 its unlink; both results are
\* ignored), the reopening behind it may fail too: the full file keeps its place,
\* and every sink made for it later adds a line before it tries to rotate again.
Undone == crashes + (IF cleared THEN 0 ELSE restarts)
GrowthBound ==
    \A i \in Names :
        Len(Content(i)) < MaxBytes + (1 + Undone) * Max(Lengths) + ext

\* The size counter is never behind what the sink itself put into the active
\* file, failed and short writes included, so no rotation is late.
CounterCoversFile ==
    pc = "idle" /\ fd.open => bytes + ext >= Len(Content(0))

\* Without crashes, failures and foreign bytes, but across restarts, bytes are
\* evicted only to make room: once anything was evicted, every rotated file has
\* reached the threshold.
NoPrematureEviction ==
    pc = "idle" /\ evicted > 0 /\ faults + crashes + ext = 0 =>
        \A i \in 1 .. maxFiles - 1 : Len(Content(i)) >= MaxBytes

\* "O_APPEND so any concurrent or accidental external writes also land at
\* end-of-file" (src/rotating_sink.cpp:107-108): a write of the sink only adds
\* bytes behind those that are there.
WritesAtEnd ==
    [][pc = "writev" /\ files' # files => IsPrefix(Content(0), Content(0)')]_vars

=============================================================================
