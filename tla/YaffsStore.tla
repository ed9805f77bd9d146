----------------------------- MODULE YaffsStore -----------------------------
(***************************************************************************)
(* What the YAFFS log promises.  There are two trees: view, what readers    *)
(* see, and disk, what they would see after a loss of power.  A tree has    *)
(* the names of the root directory and the data of the files named there   *)
(* (0 where there is none, or where the file has no name).  Garbage         *)
(* collection, erasures and mounts change neither.                         *)
(***************************************************************************)
EXTENDS Naturals

CONSTANTS Files, Names, MaxChunk

VARIABLES disk, view, job

Chunks == 1 .. MaxChunk
NoJob == [op |-> "none", f |-> 0, c |-> 0, v |-> 0, goal |-> {}]
FilesIn(names) == {x[2] : x \in names}
NamesIn(names) == {x[1] : x \in names}

Empty == [names |-> {}, data |-> [f \in Files |-> [c \in Chunks |-> 0]]]
Init == disk = Empty /\ view = Empty /\ job = NoJob

\* The names an operation on f leaves.
Goals(op, f, names) ==
  CASE op = "create" -> {names \cup {<<n, f>>} : n \in Names \ NamesIn(names)}
    [] op = "unlink" -> {{x \in names : x[2] # f}}
    [] op = "rename" -> {{x \in names : x[2] # f /\ x[1] # n} \cup {<<n, f>>} : n \in Names}
    [] OTHER -> {names}

Begin ==
  /\ job = NoJob /\ job'.op # "none"
  /\ job'.goal \in Goals(job'.op, job'.f, view.names)
  /\ (job'.op = "create") = (job'.f \notin FilesIn(view.names))
  /\ UNCHANGED <<disk, view>>

\* A resize may leave anything beyond the new end until it is over.
Truncated(f, c) == job.op = "resize" /\ f = job.f /\ c > job.c

MayView(f, c, x, names) ==
  \/ job.op = "write" /\ f = job.f /\ c = job.c /\ x = job.v
  \/ Truncated(f, c)
  \/ f \notin FilesIn(names) /\ x = 0

\* The flash catches up with memory, one chunk or one directory at a time; d and v are
\* the trees before the step, d2 and v2 those after it.
Catches(d, v, d2, v2) ==
  LET named == job.op \in {"create", "unlink", "rename"} IN
  /\ named \/ v2.names = v.names
  /\ d2.names = d.names \/ (named /\ d2.names = job.goal)
  /\ \A f \in Files : \A c \in Chunks :
       /\ v2.data[f][c] = v.data[f][c] \/ MayView(f, c, v2.data[f][c], v2.names)
       /\ \/ d2.data[f][c] = d.data[f][c]
          \/ job.op # "none" /\ d2.data[f][c] = v2.data[f][c]
          \/ Truncated(f, c)
          \/ f \notin FilesIn(d2.names) /\ d2.data[f][c] = 0

Step == job' = job /\ Catches(disk, view, disk', view')

Done ==
  /\ job # NoJob /\ job' = NoJob
  /\ view.names = job.goal /\ disk.names = job.goal
  /\ job.op = "write" => view.data[job.f][job.c] = job.v
  /\ job.op = "fsync" => disk.data[job.f] = view.data[job.f]
  /\ \A c \in Chunks : Truncated(job.f, c) =>
       view.data[job.f][c] = 0 /\ disk.data[job.f][c] = 0
  /\ UNCHANGED <<disk, view>>

\* No space.
Failed ==
  /\ job.op \in {"create", "write"} /\ job' = NoJob
  /\ disk.names = view.names
  /\ job.op = "create" => job.f \notin FilesIn(view.names)
  /\ UNCHANGED <<disk, view>>

LosePower == disk' = disk /\ view' = disk /\ job' = NoJob

Next == Begin \/ Step \/ Done \/ Failed \/ LosePower
Spec == Init /\ [][Next]_<<disk, view, job>>

=============================================================================
