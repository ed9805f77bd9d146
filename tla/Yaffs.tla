------------------------------- MODULE Yaffs -------------------------------
(***************************************************************************)
(* YAFFS2 as a log on NAND: yaffs_guts.c and yaffs_yaffs2.c.                *)
(*                                                                         *)
(* Every operation runs under one lock (the gross lock of yaffs_vfs.c), so *)
(* operations do not interleave with one another; what they interleave     *)
(* with is the power.  An operation is therefore a list of steps, todo,    *)
(* each of which programs at most one chunk or erases at most one block,   *)
(* and PowerLoss is possible between any two of them.                      *)
(*                                                                         *)
(* Flash: a block is the sequence of the chunks programmed in it; order    *)
(* lists the blocks in use by sequence number, oldest first.  A chunk is   *)
(* either data <file, chunk number, value> or an object header.  Sizes are *)
(* in chunks, 0 is the value of a chunk full of zeros.                     *)
(* Memory: dev, lost with the power, rebuilt by scanning backwards.        *)
(*                                                                         *)
(* Two variables are history, and nothing depends on them: job, what the    *)
(* running operation is for, and trees, what readers find now and what     *)
(* they would find after a loss of power.  YaffsStore relates the three.   *)
(***************************************************************************)
EXTENDS Naturals, Sequences, SequencesExt, FiniteSetsExt

CONSTANTS
  Files,       \* object numbers
  Names,       \* names in the root directory
  NBlocks,     \* blocks of the device
  Cpb,         \* chunks in a block
  MaxChunk,    \* the largest file, in chunks
  Reserved,    \* n_reserved_blocks
  SmallHole,   \* YAFFS_SMALL_HOLE_THRESHOLD
  GcCopies,    \* chunks one leisurely call of yaffs_gc_block copies
  NCaches,     \* n_caches: 0 with the mount option no-cache
  Ops,         \* the operations users perform
  MaxOps,      \* bound: operations of users
  MaxBg,       \* bound: calls of the background collector
  MaxCrashes   \* bound: losses of power

Blocks == 1 .. NBlocks
Chunks == 1 .. MaxChunk
NoRef == <<0, 0>>

ASSUME YaffsAssumption ==
  /\ IsFiniteSet(Files)
  /\ NBlocks \in Nat \ {0} /\ Cpb \in Nat \ {0} /\ MaxChunk \in Nat \ {0}
  /\ Reserved \in Nat /\ SmallHole \in Nat /\ NCaches \in Nat
  /\ GcCopies \in Nat \ {0} /\ MaxOps \in Nat /\ MaxBg \in Nat /\ MaxCrashes \in Nat
  /\ Ops \subseteq {"create", "write", "resize", "fsync", "attr", "unlink", "rename"}

VARIABLES
  flash,     \* block -> the chunks programmed in it
  order,     \* the blocks in use, by sequence number
  mounted,   \* yaffs_guts_initialise has built dev
  dev,       \* struct yaffs_dev and the objects
  todo,      \* what is left of the operation that holds the gross lock
  job,       \* the operation of a user that is running
  trees,     \* the file system on disk and in memory
  ops, bgs, crashes

vars == <<flash, order, mounted, dev, todo, job, trees, ops, bgs, crashes>>

----------------------------------------------------------------------------
(* What is on the flash *)

DataTag(f, c, v) ==
  [obj |-> f, chunk |-> c, val |-> v,
   size |-> 0, dir |-> "", name |-> "", shrink |-> FALSE, shadows |-> 0]

HdrTag(f, size, dir, name, shrink, shadows) ==
  [obj |-> f, chunk |-> 0, val |-> 0,
   size |-> size, dir |-> dir, name |-> name, shrink |-> shrink, shadows |-> shadows]

Tag(r) == flash[r[1]][r[2]]
IndexOf(b) == CHOOSE i \in 1 .. Len(order) : order[i] = b
Older(b1, b2) == IndexOf(b1) < IndexOf(b2)
\* The blocks in use without those of S.
InUseBut(S) ==
  FlattenSeq([i \in 1 .. Len(order) |-> IF order[i] \in S THEN <<>> ELSE <<order[i]>>])
Dead(t) == t.dir \in {"unlinked", "deleted"}

----------------------------------------------------------------------------
(* yaffs2_scan_backwards: what a mount makes of the flash, reading the      *)
(* chunks from the newest to the oldest.                                   *)

NoObj == [hdr |-> NoRef, chunk |-> [c \in Chunks |-> NoRef], size |-> 0,
          dir |-> "none", name |-> "", dirty |-> FALSE]

\* objs as found so far; met: objects met; valid: those whose header was met; limit:
\* shrink_size, which older data must stay below; marked: blocks with shrink headers.
BlankScan == [objs |-> [f \in Files |-> NoObj], met |-> {}, valid |-> {},
              limit |-> [f \in Files |-> MaxChunk], marked |-> {}]

LeastOf(x, y) == IF x <= y THEN x ELSE y
MostOf(x, y) == IF x >= y THEN x ELSE y

\* Mutant: an older copy of a chunk replaces the newer one.
MeetDataKeepsOldest(m, r, t) ==
  IF t.chunk > m.limit[t.obj] THEN m
  ELSE [m EXCEPT !.objs[t.obj].chunk[t.chunk] = r,
                 !.objs[t.obj].size = IF t.obj \in m.valid THEN @ ELSE MostOf(@, t.chunk)]

\* A data chunk: the newest is kept, unless a resize came after it.
MeetData(m, r, t) ==
  IF t.chunk > m.limit[t.obj] THEN m
  ELSE [m EXCEPT
         !.objs[t.obj].chunk[t.chunk] = IF @ = NoRef THEN r ELSE @,
         !.objs[t.obj].size = IF t.obj \in m.valid THEN @ ELSE MostOf(@, t.chunk)]

\* The newest header of a file.  The file it replaced goes, unless met already
\* (yaffs_handle_shadowed_obj).
MeetHdr(m, r, t) ==
  LET o == [m.objs[t.obj] EXCEPT !.hdr = r, !.dir = t.dir, !.name = t.name,
                                 !.size = MostOf(@, t.size)]
      m1 == [m EXCEPT !.valid = @ \cup {t.obj},
                      !.objs[t.obj] = o,
                      !.limit[t.obj] = LeastOf(@, t.size),
                      !.marked = IF t.shrink THEN @ \cup {r[1]} ELSE @]
  IN  IF t.shadows = 0 \/ t.shadows \in m.met THEN m1
      ELSE [m1 EXCEPT !.met = @ \cup {t.shadows}, !.valid = @ \cup {t.shadows},
                      !.objs[t.shadows].dir = "unlinked",
                      !.limit[t.shadows] = 0]

\* An older header counts only if it says that the file shrank or went away.
MeetOldHdr(m, r, t) ==
  IF ~t.shrink /\ ~Dead(t) THEN m
  ELSE [m EXCEPT !.limit[t.obj] = LeastOf(@, IF Dead(t) THEN 0 ELSE t.size),
                 !.marked = @ \cup {r[1]}]

ScanChunk(m0, r, t) ==
  LET m == [m0 EXCEPT !.met = @ \cup {t.obj}]
  IN  IF t.chunk > 0 THEN MeetData(m, r, t)
      ELSE IF t.obj \in m.valid THEN MeetOldHdr(m, r, t)
      ELSE MeetHdr(m, r, t)

ScanBlock(m, b, pages) ==
  LET from[p \in 1 .. Len(pages) + 1] ==
        IF p > Len(pages) THEN m ELSE ScanChunk(from[p + 1], <<b, p>>, pages[p])
  IN  from[1]

Scan(fl, ord) ==
  LET from[i \in 1 .. Len(ord) + 1] ==
        IF i > Len(ord) THEN BlankScan ELSE ScanBlock(from[i + 1], ord[i], fl[ord[i]])
  IN  from[1]

RefsOf(objs) ==
  ({objs[f].hdr : f \in Files} \cup UNION {{objs[f].chunk[c] : c \in Chunks} : f \in Files})
  \ {NoRef}

\* The blocks after the scan; yaffs_skip_rest_of_block leaves none to allocate from.
ScannedDev ==
  LET m == Scan(flash, order)
      used == RefsOf(m.objs)
      full(b) == \/ b \in m.marked \/ \E r \in used : r[1] = b
                 \/ b = Last(order) /\ Len(flash[b]) < Cpb
  IN [objs |-> m.objs, used |-> used, shrink |-> [b \in Blocks |-> b \in m.marked],
      state |-> [b \in Blocks |-> IF flash[b] = <<>> THEN "EMPTY"
                                  ELSE IF full(b) THEN "FULL" ELSE "DIRTY"],
      alloc |-> 0, gcBlock |-> 0, gcChunk |-> 0, dirtiest |-> 0, oldest |-> 0,
      cache |-> {}]

\* What a reader finds: a chunk beyond the end or with nothing in it reads as zero.
Read(fl, o, c) == IF o.dir # "root" \/ o.chunk[c] = NoRef \/ c > o.size THEN 0
                  ELSE fl[o.chunk[c][1]][o.chunk[c][2]].val
Listing(objs) == {<<objs[f].name, f>> : f \in {g \in Files : objs[g].dir = "root"}}
Tree(fl, objs, cache) ==
  [names |-> Listing(objs),
   data |-> [f \in Files |-> [c \in Chunks |->
     IF \E e \in cache : e.f = f /\ e.c = c
       THEN (CHOOSE e \in cache : e.f = f /\ e.c = c).v ELSE Read(fl, objs[f], c)]]]

----------------------------------------------------------------------------
(* Blocks and chunks *)

UsedIn(d, b) == {r \in d.used : r[1] = b}
Erased == {b \in Blocks : dev.state[b] = "EMPTY"}
Dirty == {b \in Blocks : dev.state[b] = "DIRTY"}
FreeChunks == NBlocks * Cpb - Cardinality(dev.used)
AllocAvailable(n) == FreeChunks > Reserved * Cpb + n

\* yaffs_block_became_dirty, up to the erasure.
BecameDirty(d, b) ==
  [d EXCEPT !.state[b] = "DIRTY",
            !.oldest = IF @ = b THEN 0 ELSE @,
            !.gcChunk = IF d.gcBlock = b THEN 0 ELSE @,
            !.gcBlock = IF @ = b THEN 0 ELSE @,
            !.dirtiest = IF @ = b THEN 0 ELSE @]

\* Mutant: chunks of the block being filled stay counted.
ChunkDelFullOnly(d, r) ==
  LET d1 == [d EXCEPT !.used = @ \ {r}]
  IN  IF r = NoRef \/ d.state[r[1]] = "ALLOCATING" THEN d
      ELSE IF UsedIn(d1, r[1]) = {} /\ ~d1.shrink[r[1]] THEN BecameDirty(d1, r[1]) ELSE d1

\* yaffs_chunk_del.  With YAFFS2 nothing is written: only dev forgets the chunk.
ChunkDel(d, r) ==
  LET b  == r[1]
      d1 == [d EXCEPT !.used = @ \ {r},
                      !.oldest = IF @ # 0 /\ Older(b, @) THEN b ELSE @]
  IN  IF r = NoRef THEN d
      ELSE IF UsedIn(d1, b) = {} /\ ~d1.shrink[b] /\ d1.state[b] # "ALLOCATING"
           THEN BecameDirty(d1, b)
           ELSE d1

\* yaffs_alloc_chunk: the lowest erased block stands for the one the finder meets.
HasBlock == dev.alloc # 0 \/ Erased # {}
Target == IF dev.alloc # 0 THEN dev.alloc ELSE Min(Erased)
NewRef == <<Target, Len(flash[Target]) + 1>>
CanAlloc(reserve) == HasBlock /\ (reserve \/ AllocAvailable(1))

\* Mutant: alloc_page may reach the end of the block.
AllocatedOneLate(d) ==
  LET full == NewRef[2] > Cpb
  IN  [d EXCEPT !.state[Target] = IF full THEN "FULL" ELSE "ALLOCATING",
                !.alloc = IF full THEN 0 ELSE Target,
                !.used = @ \cup {NewRef}]

Allocated(d) ==
  LET full == NewRef[2] = Cpb
  IN  [d EXCEPT !.state[Target] = IF full THEN "FULL" ELSE "ALLOCATING",
                !.alloc = IF full THEN 0 ELSE Target,
                !.used = @ \cup {NewRef}]

TakeBlock == order' = IF dev.alloc # 0 THEN order ELSE Append(order, Target)
Program(t) == flash' = [flash EXCEPT ![Target] = Append(@, t)] /\ TakeBlock

\* The reserve may be refused after the block was taken.
AllocRefused ==
  /\ flash' = flash
  /\ IF HasBlock
       THEN /\ TakeBlock
            /\ dev' = [dev EXCEPT !.alloc = Target, !.state[Target] = "ALLOCATING"]
       ELSE UNCHANGED <<order, dev>>

----------------------------------------------------------------------------
(* Steps.  Each is what happens to the flash and to dev at one point of an  *)
(* operation; a step that needs nothing but its kind carries no more.       *)

Gc == [do |-> "gc"]
BgGc == [do |-> "bggc"]
Copy(n) == [do |-> "copy", left |-> n]
Data(f, c, v, reserve) == [do |-> "data", f |-> f, c |-> c, v |-> v, reserve |-> reserve]
Hdr(f, dir, name, shrink, shadows) ==
  [do |-> "hdr", f |-> f, dir |-> dir, name |-> name, shrink |-> shrink, shadows |-> shadows]
Cache(f, c, v) == [do |-> "cache", f |-> f, c |-> c, v |-> v]
Prune(f, c) == [do |-> "prune", f |-> f, c |-> c]
SetSize(f, n) == [do |-> "size", f |-> f, n |-> n]
Free(f) == [do |-> "free", f |-> f]
End(result) == [do |-> "end", result |-> result]

Obj(f) == dev.objs[f]
Cached(f) == {e \in dev.cache : e.f = f}

\* yaffs_update_oh, with the look at the collector it starts with.
UpdateOh(f, dir, name, shrink) == <<Gc, Hdr(f, dir, name, shrink, 0)>>
SameOh(f) == UpdateOh(f, Obj(f).dir, Obj(f).name, FALSE)

\* Mutant: the flush finds nothing to write.
FlushNothing(f) == <<>>

\* yaffs_flush_file_cache: the dirty chunks of a file, the lowest first.
Flush(f) ==
  FlattenSeq([c \in Chunks |->
    LET hit == {e \in Cached(f) : e.c = c}
    IN  IF hit = {} THEN <<>> ELSE <<Gc, Data(f, c, (CHOOSE e \in hit : TRUE).v, TRUE)>>])

\* yaffs_do_file_wr of one chunk.
PutChunk(f, c, v) == IF NCaches = 0 THEN <<Gc, Data(f, c, v, FALSE)>> ELSE <<Cache(f, c, v)>>

\* yaffs2_handle_hole: zeros for a small hole, a shrink header for a large one.
HandleHole(f, size) ==
  LET old == Obj(f).size
  IN  CASE size <= old -> <<>>
        [] size > old /\ size - old < SmallHole /\ AllocAvailable(SmallHole + 1) ->
             FlattenSeq([i \in 1 .. (size - old) |-> PutChunk(f, old + i, 0)])
        [] OTHER -> UpdateOh(f, Obj(f).dir, Obj(f).name, TRUE)

\* yaffs_resize_file.
ResizeFile(f, n) ==
  LET old == Obj(f).size
      prune == [i \in 1 .. (old - n) |-> Prune(f, old + 1 - i)]
      alive == Obj(f).dir \notin {"unlinked", "deleted"}
  IN  Flush(f) \o <<Gc>>
      \o (IF n = old THEN <<>>
          ELSE (IF n > old THEN HandleHole(f, n) ELSE prune)
               \o <<SetSize(f, n)>> \o (IF alive THEN SameOh(f) ELSE <<>>))

\* yaffs_del_file and yaffs_generic_obj_del: the deletion header is written, and
\* forgotten at once.
DelObj(f, objs) ==
  Flush(f) \o <<Gc>>
  \o (IF objs[f].size = 0 THEN <<>>
      ELSE [i \in 1 .. objs[f].size |-> Prune(f, objs[f].size + 1 - i)] \o <<SetSize(f, 0)>>)
  \o (IF objs[f].dir = "deleted" THEN <<>> ELSE UpdateOh(f, "deleted", "", TRUE))
  \o <<Free(f)>>

Idle == mounted /\ todo = <<>> /\ Dirty = {}
Running(kind) == mounted /\ Dirty = {} /\ todo # <<>> /\ Head(todo).do = kind
Cur == Head(todo)
Rest == Tail(todo)

\* yaffs_write_new_chunk and yaffs_put_chunk_in_file, yaffs_chunk_del of the old chunk.
WriteData ==
  /\ Running("data")
  /\ LET f == Cur.f
         c == Cur.c
         d0 == [dev EXCEPT !.cache = {e \in @ : ~(e.f = f /\ e.c = c)}]
         o1 == [Obj(f) EXCEPT !.chunk[c] = NewRef, !.dirty = TRUE,
                              !.size = IF Cur.reserve THEN @ ELSE Max({@, c})]
         d1 == [Allocated(d0) EXCEPT !.objs[f] = o1]
     IN  IF CanAlloc(Cur.reserve)
           THEN /\ Program(DataTag(f, c, Cur.v))
                /\ dev' = ChunkDel(d1, Obj(f).chunk[c])
                /\ todo' = Rest
           ELSE IF Cur.reserve
           THEN /\ dev' = d0 /\ todo' = Rest /\ UNCHANGED <<flash, order>>
           ELSE AllocRefused /\ todo' = <<End("failed")>>
  /\ UNCHANGED <<mounted, job, ops, bgs, crashes>>

\* yaffs_update_oh.  A file that is unlinked or deleted has size 0 in its header.
WriteHdr ==
  /\ Running("hdr")
  /\ LET f == Cur.f
         o0 == [Obj(f) EXCEPT !.dir = Cur.dir, !.name = Cur.name]
         d0 == [dev EXCEPT !.objs[f] = o0]
         o1 == [o0 EXCEPT !.hdr = NewRef, !.dirty = Cached(f) # {}]
         size == IF Cur.dir \in {"unlinked", "deleted"} THEN 0 ELSE Obj(f).size
         d1 == ChunkDel([Allocated(d0) EXCEPT !.objs[f] = o1], Obj(f).hdr)
     IN  IF CanAlloc(Obj(f).hdr # NoRef)
           THEN /\ Program(HdrTag(f, size, Cur.dir, Cur.name, Cur.shrink, Cur.shadows))
                /\ dev' = [d1 EXCEPT !.shrink[Target] = @ \/ Cur.shrink]
                /\ todo' = Rest
           ELSE IF Obj(f).hdr # NoRef
           THEN /\ dev' = d0 /\ todo' = Rest /\ UNCHANGED <<flash, order>>
           ELSE /\ AllocRefused
                /\ todo' = IF Cur.dir = "deleted" THEN Rest
                           ELSE DelObj(f, dev.objs) \o <<End("failed")>>
  /\ UNCHANGED <<mounted, job, ops, bgs, crashes>>

\* A write into the short-operation cache; a full cache first flushes some file.
WriteCache ==
  /\ Running("cache")
  /\ LET f == Cur.f
         hit == {e \in Cached(f) : e.c = Cur.c}
     IN  IF hit = {} /\ ~AllocAvailable(1) THEN todo' = <<End("failed")>> /\ dev' = dev
         ELSE IF hit = {} /\ Cardinality(dev.cache) >= NCaches
         THEN \E e \in dev.cache : todo' = Flush(e.f) \o todo /\ dev' = dev
         ELSE /\ dev' = [dev EXCEPT
                           !.cache = (@ \ hit) \cup {[f |-> f, c |-> Cur.c, v |-> Cur.v]},
                           !.objs[f] = [Obj(f) EXCEPT !.size = Max({@, Cur.c}), !.dirty = TRUE]]
              /\ todo' = Rest
  /\ UNCHANGED <<flash, order, mounted, job, ops, bgs, crashes>>

\* The steps that touch memory only.
Forget ==
  /\ \/ /\ Running("prune")
        /\ dev' = ChunkDel([dev EXCEPT !.objs[Cur.f].chunk[Cur.c] = NoRef],
                           Obj(Cur.f).chunk[Cur.c])
     \/ /\ Running("size")
        /\ dev' = [dev EXCEPT !.objs[Cur.f].size = Cur.n]
     \/ /\ Running("free")
        /\ dev' = ChunkDel([dev EXCEPT !.objs[Cur.f] = NoObj,
                                       !.cache = @ \ Cached(Cur.f)], Obj(Cur.f).hdr)
  /\ todo' = Rest
  /\ UNCHANGED <<flash, order, mounted, job, ops, bgs, crashes>>

\* yaffs_block_became_dirty, the erasure.
EraseBlock ==
  /\ mounted /\ Dirty # {}
  /\ LET b == CHOOSE x \in Dirty : \A y \in Dirty \ {x} : Older(y, x)
     IN  /\ flash' = [flash EXCEPT ![b] = <<>>]
         /\ order' = InUseBut({b})
         /\ dev' = [dev EXCEPT !.state[b] = "EMPTY", !.shrink[b] = FALSE]
  /\ UNCHANGED <<mounted, todo, job, ops, bgs, crashes>>

----------------------------------------------------------------------------
(* The garbage collector *)

DirtyFull == {b \in Blocks : dev.state[b] = "FULL" /\ Cardinality(UsedIn(dev, b)) < Cpb}
\* Mutant: the comparison is reversed.
OldestOfReversed(S) == CHOOSE b \in S : \A x \in S \ {b} : Older(x, b)

OldestOf(S) == CHOOSE b \in S : \A x \in S \ {b} : Older(b, x)

\* yaffs2_find_oldest_dirty_seq, called when a block with a shrink header is looked at.
WithOldest ==
  IF dev.oldest = 0 /\ \E b \in DirtyFull : dev.shrink[b]
    THEN [dev EXCEPT !.oldest = OldestOf(DirtyFull)]
    ELSE dev

\* yaffs_block_ok_for_gc: a shrink header stays while older blocks hold discarded pages.
OkForGc(d, b) == ~d.shrink[b] \/ b = d.oldest \/ (d.oldest # 0 /\ Older(b, d.oldest))
Candidates(d) == {b \in DirtyFull : OkForGc(d, b)}

\* yaffs2_find_refresh_block takes the oldest full block now and then.
Refresh == LET full == {b \in Blocks : dev.state[b] = "FULL"}
           IN  IF full = {} THEN {} ELSE {OldestOf(full)}

\* Mutant: collection is never urgent.
AggressiveNever == FALSE

Aggressive == Cardinality(Erased) < Reserved + 1
Looks == Aggressive \/ Cur.do = "bggc" \/ Cardinality(Erased) * Cpb <= FreeChunks \div 4

\* yaffs_find_gc_block: gc_dirtiest, found by an earlier call, is not looked at again.
Selectable(d) ==
  IF d.gcBlock # 0 THEN {d.gcBlock}
  ELSE Candidates(d) \cup ({d.dirtiest} \ {0}) \cup (IF Aggressive THEN {} ELSE Refresh)

\* yaffs_gc_block up to its loop.
Collect(d, b) ==
  LET d1 == [d EXCEPT !.shrink[b] = FALSE, !.gcBlock = b,
                      !.gcChunk = IF d.gcBlock = 0 THEN 1 ELSE @,
                      !.dirtiest = IF d.gcBlock = 0 THEN 0 ELSE @]
  IN  IF UsedIn(d1, b) = {}
        THEN dev' = BecameDirty(d1, b) /\ todo' = Rest
        ELSE /\ dev' = [d1 EXCEPT !.state[b] = "COLLECTING"]
             /\ todo' = <<Copy(IF Aggressive THEN Cpb ELSE GcCopies)>> \o Rest

\* yaffs_check_gc.  gc_skip, gc_not_done and the thresholds decide when a leisurely
\* call collects; here it may at any time.  An aggressive call takes what it finds.
StepGc ==
  /\ Running("gc") \/ Running("bggc")
  /\ LET d == IF Looks THEN WithOldest ELSE dev IN
     \/ ~Aggressive /\ dev' = d /\ todo' = Rest
     \/ /\ ~Aggressive /\ Looks /\ d.gcBlock = 0
        /\ \E b \in Candidates(d) : dev' = [d EXCEPT !.dirtiest = b]
        /\ todo' = Rest
     \/ Aggressive /\ Selectable(d) = {} /\ dev' = d /\ todo' = Rest
     \/ Looks /\ \E b \in Selectable(d) : Collect(d, b)
  /\ UNCHANGED <<flash, order, mounted, job, ops, bgs, crashes>>

\* yaffs_gc_process_chunk: a copied header loses its shrink and shadow marks and gets
\* the size the file has in memory.
\* Mutant: the copied header keeps the size it had on the flash.
CopyOfStale(t) ==
  IF t.chunk = 0 THEN HdrTag(t.obj, t.size, t.dir, t.name, FALSE, 0) ELSE t

CopyOf(t) ==
  IF t.chunk = 0 THEN HdrTag(t.obj, Obj(t.obj).size, t.dir, t.name, FALSE, 0) ELSE t

GcCopy ==
  /\ Running("copy")
  /\ LET b == dev.gcBlock
         live == {r \in UsedIn(dev, b) : r[2] >= dev.gcChunk}
         r == CHOOSE x \in live : \A y \in live : x[2] <= y[2]
         t == CopyOf(Tag(r))
         d0 == [Allocated(dev) EXCEPT !.gcChunk = r[2] + 1]
         d1 == ChunkDel(IF t.chunk = 0 THEN [d0 EXCEPT !.objs[t.obj].hdr = NewRef]
                        ELSE [d0 EXCEPT !.objs[t.obj].chunk[t.chunk] = NewRef], r)
         stop == [dev EXCEPT !.state[b] = "FULL"]
     IN  IF live = {}
           THEN dev' = stop /\ todo' = Rest /\ UNCHANGED <<flash, order>>
         ELSE IF ~HasBlock
           THEN /\ dev' = [stop EXCEPT !.gcChunk = r[2] + 1] /\ todo' = Rest
                /\ UNCHANGED <<flash, order>>
         ELSE /\ Program(t)
              /\ IF d1.state[b] = "COLLECTING" /\ Cur.left = 1
                   THEN dev' = [d1 EXCEPT !.state[b] = "FULL"] /\ todo' = Rest
                   ELSE /\ dev' = d1
                        /\ todo' = IF d1.state[b] = "COLLECTING"
                                   THEN <<Copy(Cur.left - 1)>> \o Rest ELSE Rest
  /\ UNCHANGED <<mounted, job, ops, bgs, crashes>>

----------------------------------------------------------------------------
(* What users do.  goal is the directory the operation must leave. *)

NoJob == [op |-> "none", f |-> 0, c |-> 0, v |-> 0, goal |-> {}]
RootFiles == {f \in Files : Obj(f).dir = "root"}
Names0 == Listing(dev.objs)

Begin(op, f, c, v, goal, steps) ==
  /\ Idle /\ op \in Ops /\ ops < MaxOps
  /\ job' = [op |-> op, f |-> f, c |-> c, v |-> v, goal |-> goal]
  /\ todo' = steps \o <<End("done")>>
  /\ ops' = ops + 1
  /\ UNCHANGED <<flash, order, mounted, dev, bgs, crashes>>

\* yaffs_create_obj
Create(f, n) ==
  /\ Obj(f).dir = "none" /\ \A x \in Names0 : x[1] # n
  /\ Begin("create", f, 0, 0, Names0 \cup {<<n, f>>}, UpdateOh(f, "root", n, FALSE))

\* yaffs_wr_file; every write has a value of its own.
Write(f, c) ==
  Begin("write", f, c, ops + 1, Names0, HandleHole(f, c - 1) \o PutChunk(f, c, ops + 1))

\* yaffs_setattr of the size: yaffs_resize_file, then yaffs_set_attribs.
Resize(f, n) ==
  Begin("resize", f, n, 0, Names0, ResizeFile(f, n) \o SameOh(f))

\* yaffs_sync_object
Fsync(f) ==
  Begin("fsync", f, 0, 0, Names0, IF Obj(f).dirty THEN Flush(f) \o SameOh(f) ELSE <<>>)

\* yaffs_setattr of anything else
SetAttr(f) == Begin("attr", f, 0, 0, Names0, SameOh(f))

\* yaffs_unlink: the inode is in use, so the file waits in the unlinked directory.
Unlink(f) ==
  Begin("unlink", f, 0, 0, {x \in Names0 : x[2] # f}, UpdateOh(f, "unlinked", "", FALSE))

\* Mutant: the collector runs between the headers of a rename.
RenameWithGc(f, n) ==
  LET old == {x[2] : x \in {y \in Names0 : y[1] = n}}
      replace == IF old = {} THEN <<>>
                 ELSE LET g == CHOOSE x \in old : TRUE
                      IN  <<Gc, Hdr(f, "root", n, FALSE, g)>> \o UpdateOh(g, "unlinked", "", FALSE)
  IN  /\ f \notin old
      /\ Begin("rename", f, 0, 0,
               {x \in Names0 : x[1] # n /\ x[2] # f} \cup {<<n, f>>},
               replace \o UpdateOh(f, "root", n, FALSE))

\* yaffs_rename_obj.  Between the header that shadows the old file and the last one the
\* collector is disabled.
Rename(f, n) ==
  LET old == {x[2] : x \in {y \in Names0 : y[1] = n}}
      replace == IF old = {} THEN <<>>
                 ELSE LET g == CHOOSE x \in old : TRUE
                      IN  <<Hdr(f, "root", n, FALSE, g), Hdr(g, "unlinked", "", FALSE, 0)>>
  IN  /\ f \notin old
      /\ Begin("rename", f, 0, 0,
               {x \in Names0 : x[1] # n /\ x[2] # f} \cup {<<n, f>>},
               replace \o UpdateOh(f, "root", n, FALSE))

EndOp ==
  /\ Running("end")
  /\ todo' = Rest /\ job' = NoJob
  /\ UNCHANGED <<flash, order, mounted, dev, ops, bgs, crashes>>

\* yaffs_evict_inode of an unlinked file: the last user has gone.
Evict(f) ==
  /\ Idle /\ Obj(f).dir = "unlinked"
  /\ todo' = DelObj(f, dev.objs)
  /\ UNCHANGED <<flash, order, mounted, dev, job, ops, bgs, crashes>>

\* yaffs_bg_gc
BgCollect ==
  /\ Idle /\ bgs < MaxBg
  /\ bgs' = bgs + 1 /\ todo' = <<BgGc>>
  /\ UNCHANGED <<flash, order, mounted, dev, job, ops, crashes>>

----------------------------------------------------------------------------
(* Power *)

BlankDev ==
  [objs |-> [f \in Files |-> NoObj], used |-> {}, shrink |-> [b \in Blocks |-> FALSE],
   state |-> [b \in Blocks |-> "EMPTY"], alloc |-> 0, gcBlock |-> 0, gcChunk |-> 0,
   dirtiest |-> 0, oldest |-> 0, cache |-> {}]

PowerLoss ==
  /\ mounted /\ crashes < MaxCrashes
  /\ crashes' = crashes + 1
  /\ mounted' = FALSE /\ dev' = BlankDev /\ todo' = <<>> /\ job' = NoJob
  /\ order' = InUseBut({b \in Blocks : flash[b] = <<>>})
  /\ UNCHANGED <<flash, ops, bgs>>

\* yaffs_guts_initialise: scan, then yaffs_strip_deleted_objs, which takes the unlinked
\* files and then the deleted ones, in the order of a list (here any order).
Mount ==
  /\ ~mounted /\ mounted' = TRUE
  /\ dev' = ScannedDev
  /\ LET objs == Scan(flash, order).objs
         in(dir) == SetToSeqs({f \in Files : objs[f].dir = dir})
     IN  \E u \in in("unlinked"), d \in in("deleted") :
           LET fs == u \o d
           IN  todo' = FlattenSeq([i \in 1 .. Len(fs) |-> DelObj(fs[i], objs)])
  /\ UNCHANGED <<flash, order, job, ops, bgs, crashes>>

\* What a reader finds after a loss of power, and what one finds now.
Trees(fl, ord, up, d) ==
  LET disk == Tree(fl, Scan(fl, ord).objs, {})
  IN  [disk |-> disk, view |-> IF up THEN Tree(fl, d.objs, d.cache) ELSE disk]

Init ==
  /\ flash = [b \in Blocks |-> <<>>] /\ order = <<>>
  /\ mounted = TRUE /\ dev = BlankDev /\ todo = <<>> /\ job = NoJob
  /\ ops = 0 /\ bgs = 0 /\ crashes = 0
  /\ trees = Trees(flash, order, mounted, dev)

Steps == WriteData \/ WriteHdr \/ WriteCache \/ Forget \/ EraseBlock
         \/ StepGc \/ GcCopy \/ EndOp
Users == \/ \E f \in Files, n \in Names : Create(f, n)
         \/ \E f \in RootFiles :
              \/ \E c \in Chunks : Write(f, c)
              \/ \E n \in 0 .. MaxChunk : Resize(f, n)
              \/ Fsync(f) \/ SetAttr(f) \/ Unlink(f)
              \/ \E n \in Names : Rename(f, n)
         \/ \E f \in Files : Evict(f)
Traced(A) == A /\ trees' = Trees(flash', order', mounted', dev')
Next == Traced(Steps) \/ Traced(Users) \/ Traced(BgCollect \/ PowerLoss \/ Mount)

Spec == Init /\ [][Next]_vars
FairSpec == Spec /\ WF_<<flash, order, dev, todo, job>>(Steps)

----------------------------------------------------------------------------
(* Properties *)

\* Types.
TypeOK ==
  /\ flash \in [Blocks -> Seq([obj : Files, chunk : 0 .. MaxChunk, val : 0 .. MaxOps,
                               size : 0 .. MaxChunk,
                               dir : {"", "root", "unlinked", "deleted"},
                               name : Names \cup {""}, shrink : BOOLEAN,
                               shadows : Files \cup {0}])]
  /\ \A b \in Blocks : Len(flash[b]) <= Cpb
  /\ order \in Seq(Blocks) /\ IsInjective(order)
  /\ mounted \in BOOLEAN
  /\ \A r \in dev.used : r[1] \in Blocks /\ r[2] \in 1 .. Len(flash[r[1]])
  /\ dev.state \in [Blocks -> {"EMPTY", "ALLOCATING", "FULL", "COLLECTING", "DIRTY"}]
  /\ ops \in 0 .. MaxOps /\ bgs \in 0 .. MaxBg /\ crashes \in 0 .. MaxCrashes

\* What the log promises: YaffsStore, seen through a mount of the flash as it is now.
Store == INSTANCE YaffsStore WITH disk <- trees.disk, view <- trees.view
ImplementsStore == Store!Spec

\* Between operations memory and flash agree: a mount would find the very chunks that
\* dev holds, for every file that has a name (with the cache empty).
MemoryMatchesFlash ==
  Idle /\ dev.cache = {} => \A f \in RootFiles :
    LET now == Scan(flash, order).objs[f]
    IN  /\ now.dir = "root" /\ now.name = Obj(f).name
        /\ now.hdr = Obj(f).hdr /\ now.size = Obj(f).size /\ now.chunk = Obj(f).chunk

\* The chunks counted in use are the ones files refer to, so none is lost to the
\* collector and none stays behind; and each holds what it is referred to for.
RefsMatch ==
  mounted =>
    /\ dev.used = RefsOf(dev.objs)
    /\ \A f \in Files :
         /\ Obj(f).hdr # NoRef => Tag(Obj(f).hdr).obj = f /\ Tag(Obj(f).hdr).chunk = 0
         /\ \A c \in Chunks : Obj(f).chunk[c] # NoRef =>
              Tag(Obj(f).chunk[c]).obj = f /\ Tag(Obj(f).chunk[c]).chunk = c

\* oldest_dirty_seq, when known, is that of the oldest block with discarded pages:
\* what the check of shrink headers relies on.
OldestExact ==
  mounted /\ dev.oldest # 0 => \A b \in DirtyFull : ~Older(b, dev.oldest)

\* The reserve is enough: the collector, and a header or a cached chunk that may use
\* the reserve, always finds a page.
ReserveSuffices == mounted /\ Dirty = {} => HasBlock

\* "Delete backwards so that we don't end up with holes if power is lost part-way
\* through the operation": a chunk goes only after those behind it.
DeletesBackwards ==
  [][job.op = "resize" =>
       \A c \in Chunks : /\ trees.disk.data[job.f][c] # 0
                         /\ trees'.disk.data[job.f][c] = 0
         => \A d \in Chunks : d > c => trees'.disk.data[job.f][d] = 0]_vars

\* A mount finds no two files of the same name: "we must disable gc here otherwise it
\* can mess up the shadowing".
OneFilePerName == \A x, y \in trees.disk.names : x[1] = y[1] => x = y

\* An operation that holds the gross lock lets go of it.
LockReleased == []<>(mounted /\ todo = <<>>)

=============================================================================
