--------------------------------- MODULE Asvfs ---------------------------------
(***************************************************************************)
(* The home-brewed file system (fs/asvfs.c) on a drive that keeps what is  *)
(* written to it: the header, a meta data record for each block, and the   *)
(* blocks, a directory being a block that lists the blocks of its entries. *)
(*                                                                         *)
(* An operation reads what it needs and then does a few writes, each of    *)
(* them a step here; the machine may crash between any two, and the next   *)
(* asvfs_initalize reads the header again.  The drive is external, and so  *)
(* is whoever calls the operations (the kernel's VFS, or Linux through     *)
(* FUSE), of whom it is assumed that names are looked up first: only free  *)
(* names are created or renamed to, only files are written, cut or         *)
(* unlinked, and nothing is moved below itself.                            *)
(***************************************************************************)
EXTENDS Integers, Sequences, SequencesExt, FiniteSets, FiniteSetsExt

CONSTANTS
    LastBlock,      \* blocks 1 .. LastBlock exist, the root directory is block 1
    Name,           \* names of files and directories
    NoName,         \* the name in the meta data of a block never used
    BLOCK_SIZE,     \* ASVFS_DEFAULT_BLOCK_SIZE
    Length,         \* the lengths truncate is asked for
    Offset, Size,   \* where a write starts and how much it writes
    MaxEntries,     \* bound on the entries of a directory
    MaxDepth,       \* bound on the names in a path
    MaxCrashes      \* bound on the crashes

ASSUME DriveAssumption == LastBlock \in Nat \ {0} /\ BLOCK_SIZE \in Nat \ {0}
ASSUME RequestAssumption ==
    /\ Length \subseteq Nat /\ Offset \subseteq Nat /\ Size \subseteq Nat \ {0}
    /\ MaxEntries \in Nat /\ MaxDepth \in Nat
ASSUME CrashesAssumption == MaxCrashes \in Nat

Block == 1 .. LastBlock
Root == 1
NotFound == 0

UNKNOWN == "unknown"
FILE == "file"
DIRECTORY == "directory"

\* The paths that are asked for, "/" being the empty one.
Pathname == UNION {[1 .. k -> Name] : k \in 1 .. MaxDepth}

VARIABLES
    header,     \* next_free as the drive has it
    next_free,  \* next_free in memory
    meta,       \* the meta data records
    content,    \* the blocks: a directory's index, or data and which file wrote it
    todo,       \* the writes the operation under way has still to do
    made,       \* whose creation was completed and that was not deleted (a history variable)
    crashes     \* how often the machine has crashed

fsvars == <<header, next_free, meta, content, todo, made, crashes>>

Data(f) == [dir |-> FALSE, index |-> <<>>, by |-> f]
Directory(index) == [dir |-> TRUE, index |-> index, by |-> 0]

\* A drive as it is formatted: num_blocks of an unused block is 0 or 1.
InitFs ==
    /\ header = 2 /\ next_free = 2
    /\ \E num \in {0, 1} :
          meta = [b \in Block |-> [in_use |-> b = Root, name |-> NoName,
                                   block_type |-> IF b = Root THEN DIRECTORY ELSE UNKNOWN,
                                   file_size |-> 0, starting_block |-> b, num_blocks |-> num]]
    /\ content = [b \in Block |-> IF b = Root THEN Directory(<<>>) ELSE Data(0)]
    /\ todo = <<>>
    /\ made = {}
    /\ crashes = 0

Idle == todo = <<>>

-----------------------------------------------------------------------------
(***************************************************************************)
(* Reading.                                                                *)
(***************************************************************************)

\* asvfs_get_block_meta_from_dir: the first entry with that name, if the block
\* holds a directory at all.
Child(d, name) ==
    LET hits == {i \in DOMAIN content[d].index : meta[content[d].index[i]].name = name}
    IN  IF content[d].dir /\ hits # {} THEN content[d].index[Min(hits)] ELSE NotFound

\* asvfs_get_block_id_from_pathname.
BlockOf(pathname) ==
    LET after[i \in 0 .. Len(pathname)] ==
          IF i = 0 THEN Root
          ELSE IF after[i - 1] = NotFound THEN NotFound ELSE Child(after[i - 1], pathname[i])
    IN  after[Len(pathname)]

ParentOf(pathname) == BlockOf(Front(pathname))

IsDirectory(b) == b # NotFound /\ meta[b].block_type = DIRECTORY
IsFile(b) == b # NotFound /\ meta[b].block_type = FILE

-----------------------------------------------------------------------------
(***************************************************************************)
(* The operations: each of them leaves a list of writes to do.             *)
(***************************************************************************)

\* done is what the header completes the creation of, for the history variable.
ToHeader(n, done) == [header |-> n, done |-> done]
ToMeta(b, m) == [block |-> b, meta |-> m]
ToBlock(b, c) == [block |-> b, content |-> c]
ToData(blocks, f) == [blocks |-> blocks, data |-> f]

\* The entry of a new file or directory in its parent, and its meta data.
AddEntry(d, b) == ToBlock(d, Directory(Append(content[d].index, b)))
Named(b, name, type) ==
    ToMeta(b, [meta[b] EXCEPT !.in_use = TRUE, !.name = name, !.block_type = type])

\* The next free block is taken and listed; nothing looks whether the drive has one
\* and the directory a place, which are bounds here.
HasPlace(d) == Len(content[d].index) < MaxEntries

TakesBlock(pathname) ==
    /\ Idle
    /\ IsDirectory(ParentOf(pathname)) /\ next_free \in Block /\ HasPlace(ParentOf(pathname))
    /\ BlockOf(pathname) = NotFound
    /\ UNCHANGED <<header, meta, content, made, crashes>>

\* Wrong on purpose (see "mutants" in PROJECT.json): the header is not advanced.
asvfs_mknod_KeepsHeader(pathname) ==
    /\ TakesBlock(pathname)
    /\ todo' = <<AddEntry(ParentOf(pathname), next_free), Named(next_free, Last(pathname), FILE),
                 ToHeader(next_free, {next_free})>>
    /\ UNCHANGED next_free

\* Wrong on purpose (see "mutants" in PROJECT.json): the header that is written is
\* the one before the block was taken.
asvfs_mknod_StaleHeader(pathname) ==
    /\ TakesBlock(pathname)
    /\ todo' = <<AddEntry(ParentOf(pathname), next_free), Named(next_free, Last(pathname), FILE),
                 ToHeader(next_free, {next_free})>>
    /\ next_free' = next_free + 1

\* asvfs_mknod: the directory is written first, then the meta data and the header.
asvfs_mknod(pathname) ==
    /\ TakesBlock(pathname)
    /\ todo' = <<AddEntry(ParentOf(pathname), next_free), Named(next_free, Last(pathname), FILE),
                 ToHeader(next_free + 1, {next_free})>>
    /\ next_free' = next_free + 1

asvfs_mkdir(pathname) ==
    /\ TakesBlock(pathname)
    /\ todo' = <<AddEntry(ParentOf(pathname), next_free), ToBlock(next_free, Directory(<<>>)),
                 Named(next_free, Last(pathname), DIRECTORY), ToHeader(next_free + 1, {next_free})>>
    /\ next_free' = next_free + 1

Blocks(length) == (length \div BLOCK_SIZE) + (IF length % BLOCK_SIZE # 0 THEN 1 ELSE 0)
Moves(f, length) == length > BLOCK_SIZE /\ Blocks(length) > meta[f].num_blocks

\* Wrong on purpose (see "mutants" in PROJECT.json): one block too few is taken.
Taken_OneLess(f, length) == IF Moves(f, length) THEN Blocks(length) - 1 ELSE 0

\* The blocks truncate takes: all of them anew when the file has too few.
Taken(f, length) == IF Moves(f, length) THEN Blocks(length) ELSE 0

\* asvfs_truncate_file_block_id: "Recreate the file at the end of the drive".
TruncateWrites(f, length) ==
    LET m == [meta[f] EXCEPT !.file_size = length]
        moved == [m EXCEPT !.starting_block = next_free, !.num_blocks = Blocks(length)]
        copies == [i \in 1 .. m.num_blocks |->
                      ToBlock(next_free + i - 1, content[m.starting_block + i - 1])]
    IN  IF Moves(f, length)
        THEN copies \o <<ToHeader(next_free + Taken(f, length), {}), ToMeta(f, moved), ToMeta(f, moved)>>
        ELSE <<ToMeta(f, m)>>

HasRoom(f, length) == next_free + Taken(f, length) <= LastBlock + 1

asvfs_truncate(pathname, length) ==
    /\ Idle /\ IsFile(BlockOf(pathname))
    /\ LET f == BlockOf(pathname)
       IN  /\ HasRoom(f, length)
           /\ todo' = TruncateWrites(f, length)
           /\ next_free' = next_free + Taken(f, length)
    /\ UNCHANGED <<header, meta, content, made, crashes>>

\* The blocks that the bytes offset .. offset + size - 1 of a file fall on: they
\* are counted from the block of the file itself, not from starting_block.
Touched(f, offset, size) == {f + (x \div BLOCK_SIZE) : x \in offset .. offset + size - 1}

\* asvfs_write_file_block_id.
asvfs_write(pathname, offset, size) ==
    /\ Idle /\ IsFile(BlockOf(pathname))
    /\ LET f == BlockOf(pathname)
           grows == meta[f].file_size < offset + size
       IN  /\ grows => HasRoom(f, offset + size)
           /\ Touched(f, offset, size) \subseteq Block
           /\ todo' = (IF grows THEN TruncateWrites(f, offset + size) ELSE <<>>)
                      \o <<ToData(Touched(f, offset, size), f)>>
           /\ next_free' = IF grows THEN next_free + Taken(f, offset + size) ELSE next_free
    /\ UNCHANGED <<header, meta, content, made, crashes>>

\* asvfs_unlink: the entries behind the block are moved up.  The block itself is
\* neither freed nor marked unused.
RemoveEntry(d, c) ==
    LET index == content[d].index
    IN  ToBlock(d, Directory(RemoveAt(index, Min({i \in DOMAIN index : index[i] = c}))))

asvfs_unlink(pathname) ==
    /\ Idle /\ IsFile(BlockOf(pathname))
    /\ todo' = <<RemoveEntry(ParentOf(pathname), BlockOf(pathname))>>
    /\ made' = made \ {BlockOf(pathname)}
    /\ UNCHANGED <<header, next_free, meta, content, crashes>>

Renamed(b, name) == ToMeta(b, [meta[b] EXCEPT !.name = name])

\* Wrong on purpose (see "mutants" in PROJECT.json): the new directory is not told.
RenameWrites_Drops(from, to) ==
    LET b == BlockOf(from)
    IN  IF ParentOf(from) = ParentOf(to)
        THEN <<Renamed(b, Last(to))>>
        ELSE <<RemoveEntry(ParentOf(from), b), Renamed(b, Last(to))>>

\* Wrong on purpose (see "mutants" in PROJECT.json): a move keeps the old name.
RenameWrites_OldName(from, to) ==
    LET b == BlockOf(from)
    IN  IF ParentOf(from) = ParentOf(to)
        THEN <<Renamed(b, Last(to))>>
        ELSE <<RemoveEntry(ParentOf(from), b), AddEntry(ParentOf(to), b)>>

\* asvfs_rename: within a directory the name is changed; otherwise the entry goes
\* from one directory to the other, and then the name is changed if it has to be.
RenameWrites(from, to) ==
    LET b == BlockOf(from)
    IN  IF ParentOf(from) = ParentOf(to)
        THEN <<Renamed(b, Last(to))>>
        ELSE <<RemoveEntry(ParentOf(from), b), AddEntry(ParentOf(to), b)>>
             \o (IF Last(from) # Last(to) THEN <<Renamed(b, Last(to))>> ELSE <<>>)

asvfs_rename(from, to) ==
    /\ Idle /\ BlockOf(from) # NotFound /\ IsDirectory(ParentOf(to))
    /\ ~IsPrefix(from, to) /\ BlockOf(to) = NotFound
    /\ ParentOf(from) = ParentOf(to) \/ HasPlace(ParentOf(to))
    /\ todo' = RenameWrites(from, to)
    /\ UNCHANGED <<header, next_free, meta, content, made, crashes>>

-----------------------------------------------------------------------------
(***************************************************************************)
(* The drive.                                                              *)
(***************************************************************************)

NextWrite(field) == ~Idle /\ field \in DOMAIN Head(todo) /\ todo' = Tail(todo)

asvfs_write_header ==
    /\ NextWrite("header")
    /\ header' = Head(todo).header
    /\ made' = made \cup Head(todo).done
    /\ UNCHANGED <<next_free, meta, content, crashes>>

asvfs_write_meta_data ==
    /\ NextWrite("meta")
    /\ meta' = [meta EXCEPT ![Head(todo).block] = Head(todo).meta]
    /\ UNCHANGED <<header, next_free, content, made, crashes>>

asvfs_write_block ==
    /\ NextWrite("content")
    /\ content' = [content EXCEPT ![Head(todo).block] = Head(todo).content]
    /\ UNCHANGED <<header, next_free, meta, made, crashes>>

WriteData ==
    /\ NextWrite("data")
    /\ content' = [b \in Block |-> IF b \in Head(todo).blocks THEN Data(Head(todo).data) ELSE content[b]]
    /\ UNCHANGED <<header, next_free, meta, made, crashes>>

\* A crash and the next asvfs_initalize.
Crash ==
    /\ ~Idle /\ crashes < MaxCrashes
    /\ todo' = <<>>
    /\ next_free' = header
    /\ crashes' = crashes + 1
    /\ UNCHANGED <<header, meta, content, made>>

NextFs ==
    \/ \E pathname \in Pathname :
          \/ asvfs_mknod(pathname)
          \/ asvfs_mkdir(pathname)
          \/ asvfs_unlink(pathname)
          \/ \E length \in Length : asvfs_truncate(pathname, length)
          \/ \E offset \in Offset, size \in Size : asvfs_write(pathname, offset, size)
          \/ \E to \in Pathname : asvfs_rename(pathname, to)
    \/ asvfs_write_header \/ asvfs_write_meta_data \/ asvfs_write_block \/ WriteData
    \/ Crash

SpecFs == InitFs /\ [][NextFs]_fsvars

-----------------------------------------------------------------------------
MetaData ==
    [in_use : BOOLEAN, name : Name \cup {NoName}, block_type : {UNKNOWN, FILE, DIRECTORY},
     file_size : Nat, starting_block : Block, num_blocks : Nat]

TypeOKFs ==
    /\ header \in 2 .. LastBlock + 1 /\ next_free \in 2 .. LastBlock + 1
    /\ meta \in [Block -> MetaData]
    /\ \A b \in Block :
          /\ content[b].dir \in BOOLEAN
          /\ \A i \in DOMAIN content[b].index : content[b].index[i] \in Block
          /\ content[b].by \in Block \cup {0}
    /\ made \subseteq Block /\ crashes \in 0 .. MaxCrashes

\* The places that list a block.
Entries(c) == {e \in Block \X (1 .. LastBlock) :
                  content[e[1]].dir /\ e[2] \in DOMAIN content[e[1]].index
                  /\ content[e[1]].index[e[2]] = c}

\* next_free is the "next free block": until the machine crashes no directory lists
\* it, or a block after it, and no block is listed twice, at any moment of any
\* operation.
OneEntryEach ==
    /\ TypeOKFs
    /\ crashes = 0 => \A c \in Block :
          Cardinality(Entries(c)) <= 1 /\ (c >= next_free => Entries(c) = {})

\* What is found below the root in so many steps.
Reach[k \in 0 .. LastBlock] ==
    IF k = 0 THEN {Root}
    ELSE Reach[k - 1] \cup UNION {Range(content[d].index) : d \in {b \in Reach[k - 1] : content[b].dir}}

\* Between operations exactly what was created and not deleted is found by
\* walking down from the root, and what is found has meta data of its own, until
\* the machine crashes.
EveryFileFound ==
    Idle /\ crashes = 0 => /\ Reach[LastBlock] = made \cup {Root}
            /\ \A b \in made : meta[b].in_use /\ meta[b].block_type # UNKNOWN

\* The blocks of a file: its own, and the ones truncate has assigned to it.
Extent(b) == {b} \cup meta[b].starting_block .. meta[b].starting_block + meta[b].num_blocks - 1

\* Between operations the blocks of a file or directory belong to it alone, lie
\* below next_free, and hold nothing that was written to another one, until the
\* machine crashes.
BlocksHoldTheirOwn ==
    Idle /\ crashes = 0 => \A b \in {b \in Block : meta[b].in_use} :
        /\ \A x \in Extent(b) : x < next_free
        /\ \A c \in {c \in Block : meta[c].in_use} : b # c => Extent(b) \cap Extent(c) = {}
        /\ content[b].dir <=> meta[b].block_type = DIRECTORY
        /\ \A x \in Extent(b) : content[x].by \in {0, b}

\* What was complete when the machine crashed is never overwritten by what comes
\* after: the block of a file or directory that was made changes only by writes
\* to that file, or as a directory whose entries change.
CompleteStaysSafe ==
    [][\A c \in made : content'[c] # content[c] =>
          (content[c].dir /\ content'[c].dir) \/ content'[c] = Data(c)]_fsvars

-----------------------------------------------------------------------------
(***************************************************************************)
(* Refinement: an operation takes effect with its first step; what it has  *)
(* still to write is counted as written.                                   *)
(***************************************************************************)
\* What the drive holds, and what a write makes of it.
Drive == [header |-> header, meta |-> meta, content |-> content, made |-> made]

Written(s, w) ==
    [header  |-> IF "header" \in DOMAIN w THEN w.header ELSE s.header,
     made    |-> IF "header" \in DOMAIN w THEN s.made \cup w.done ELSE s.made,
     meta    |-> IF "meta" \in DOMAIN w THEN [s.meta EXCEPT ![w.block] = w.meta] ELSE s.meta,
     content |-> IF "content" \in DOMAIN w THEN [s.content EXCEPT ![w.block] = w.content]
                 ELSE IF "data" \in DOMAIN w
                 THEN [b \in Block |-> IF b \in w.blocks THEN Data(w.data) ELSE s.content[b]]
                 ELSE s.content]

\* The drive after each of a list of writes, and after those still to do.
Performed(s, writes) ==
    LET after[k \in 0 .. Len(writes)] ==
          IF k = 0 THEN s ELSE Written(after[k - 1], writes[k])
    IN  after
After == Performed(Drive, todo)[Len(todo)]

TreeOf(s) == UNION {{<<d, s.meta[x].name, x>> : x \in Range(s.content[d].index)} : d \in Block}
DirsOf(s) == {b \in Block : s.meta[b].block_type = DIRECTORY}

treeBar == TreeOf(After)
dirsBar == DirsOf(After)

Tree == INSTANCE FileTree WITH tree <- treeBar, dirs <- dirsBar, Node <- Block

\* Until the machine crashes the operations are those on a tree of named files
\* and directories.
ImplementsTree == Tree!Init /\ [][crashes' = 0 => [Tree!Next]_<<treeBar, dirsBar>>]_fsvars

-----------------------------------------------------------------------------
(***************************************************************************)
(* The inductive invariant: it follows the writes still to do to the last. *)
(***************************************************************************)
Contents == [dir : BOOLEAN, index : Seq(Block), by : Block \cup {0}]

Write ==
    [header : 2 .. LastBlock + 1, done : SUBSET Block] \cup [block : Block, meta : MetaData]
    \cup [block : Block, content : Contents] \cup [blocks : SUBSET Block, data : Block]

\* What a crash leaves: files end on the drive, what was made lies below the next
\* free block, and a directory that was made is one.
WellFormed(s) ==
    /\ s.header \in 2 .. LastBlock + 1
    /\ s.meta \in [Block -> MetaData] /\ s.content \in [Block -> Contents]
    /\ \A b \in Block : s.meta[b].starting_block + s.meta[b].num_blocks <= LastBlock + 1
    /\ s.made \subseteq 2 .. s.header - 1
    /\ \A c \in s.made : s.meta[c].block_type = DIRECTORY => s.content[c].dir

\* One write after another overwrites nothing that was complete.
Keeps(s, t) ==
    \A c \in s.made : t.content[c] # s.content[c] =>
        (s.content[c].dir /\ t.content[c].dir) \/ t.content[c] = Data(c)

\* No entry twice, none from n on.
ListedOnce(s, n) ==
    \A d, e \in Block : \A i \in DOMAIN s.content[d].index, j \in DOMAIN s.content[e].index :
        /\ s.content[d].index[i] < n
        /\ s.content[d].index[i] = s.content[e].index[j] => d = e /\ i = j

\* Whatever has the root and the entries of its directories has all that was made.
Rooted(s) ==
    \A S \in SUBSET Block :
        Root \in S /\ (\A d \in S : \A i \in DOMAIN s.content[d].index : s.content[d].index[i] \in S)
        => s.made \subseteq S

ExtentIn(s, b) ==
    {b} \cup s.meta[b].starting_block .. s.meta[b].starting_block + s.meta[b].num_blocks - 1

\* A drive without an operation under way that has never crashed.
Whole(s) ==
    /\ \A b \in Block :
          /\ s.content[b].dir <=> s.meta[b].block_type = DIRECTORY
          /\ ~s.content[b].dir => s.content[b].index = <<>>
          /\ ~s.meta[b].in_use => s.meta[b].block_type = UNKNOWN
    /\ \A b \in s.header .. LastBlock :
          ~s.meta[b].in_use /\ s.content[b].by = 0 /\ s.meta[b].starting_block = b
          /\ s.meta[b].num_blocks <= 1
    /\ \A b \in Block : s.meta[b].in_use =>
          /\ \A x \in ExtentIn(s, b) : x < s.header /\ s.content[x].by \in {0, b}
          /\ \A c \in Block : s.meta[c].in_use /\ b # c => ExtentIn(s, b) \cap ExtentIn(s, c) = {}
    /\ s.meta[Root].in_use /\ s.meta[Root].block_type = DIRECTORY
    /\ \A b \in s.made : s.meta[b].in_use /\ s.meta[b].block_type # UNKNOWN
    /\ \A d \in Block : \A i \in DOMAIN s.content[d].index : s.content[d].index[i] \in s.made
    /\ ListedOnce(s, s.header) /\ Rooted(s)

\* The writes lead from drive s to drive t; n is the next free block, and whole says
\* whether the machine has never crashed.
Leads(s, writes, t, n, whole) ==
    LET after == Performed(s, writes)
    IN  /\ writes \in Seq(Write) /\ after[Len(writes)] = t
        /\ \A k \in 0 .. Len(writes) :
              WellFormed(after[k]) /\ (whole => ListedOnce(after[k], n))
        /\ \A k \in 1 .. Len(writes) : Keeps(after[k - 1], after[k])

FsInv ==
    /\ crashes \in 0 .. MaxCrashes
    /\ Leads(Drive, todo, After, next_free, crashes = 0) /\ next_free = After.header
    /\ crashes = 0 => Whole(After)
=============================================================================
