------------------------------ MODULE AddressSpace ------------------------------
(***************************************************************************)
(* What programs see at their addresses: the ELF loader                    *)
(* (task/elf_loader.c), execve and fork (syscalls/), page_map              *)
(* (arch/x86_64/page.c) and the page half of the scheduler                 *)
(* (task/process.c), on top of the allocator of KernelPages.  There is one *)
(* set of page tables: a switch maps the pages of the next process over    *)
(* those of the last one, which stay where the next one has none.          *)
(*                                                                         *)
(* A page is zeroed when it is handed out, which happens once, so memory   *)
(* starts as zeros.                                                        *)
(*                                                                         *)
(* Which process runs next, threads, waiting and dying are the subject of  *)
(* Process.  Pages are never given back, so a process that ends or loads   *)
(* another program just keeps them.                                        *)
(***************************************************************************)
EXTENDS KernelPages, Sequences, SequencesExt, FiniteSets

CONSTANTS
    Proc,           \* the user processes that may ever exist
    First,          \* ROOT_PROCESS_ID
    Image,          \* programs: how many pages of text and data, and does the data end
                    \* beyond its pages because it does not start at one?
    MaxImage,       \* the most pages of a segment
    StackPages,     \* PROCESS_DEFAULT_STACK_PAGES, 16
    KernelCalls,    \* how many pages other kernel code asks for in a call
    Writes          \* the user addresses programs write to

ASSUME ProcAssumption == First \in Proc /\ None \notin Proc
ASSUME ImageAssumption ==
    \* A longer image would need two spare tables at once.
    /\ MaxImage \in 1 .. ENTRIES
    /\ Image \subseteq [name : {"a", "b", "c"}, text : 1 .. MaxImage, data : 0 .. MaxImage,
                        spill : BOOLEAN]
ASSUME StackAssumption == StackPages \in 1 .. ENTRIES - 1 /\ KernelCalls \subseteq 1 .. MaxCall

\* User addresses, by section.
Vaddr == ({"text", "data"} \X (1 .. MaxImage + 1)) \cup ({"stack"} \X (1 .. StackPages))

\* The tables on the way from the PML4 to an address: sections and stack are in
\* different gigabytes.
TablesOf(v) == IF v[1] = "stack" THEN <<"pdpt", "stack pd", "stack pt">> ELSE <<"pdpt", "pd", "pt">>
ASSUME WritesAssumption == Writes \subseteq Vaddr

\* Where the text lies, from address 0, and the data after it.
Position(v) == IF v[1] = "text" THEN v[2] - 1 ELSE MaxImage + v[2]

\* The physical memory from address 0, which no call hands out.
Low == -4

UserTable == {"pdpt", "pd", "pt", "stack pd", "stack pt"}

\* What a page holds: zeros, a page of a program, or what a process has stored.
Zero == <<"zero">>
Loaded(image, v) == <<"loaded", image.name, v>>
Stored(p) == <<"stored", p>>

VARIABLES
    memory,     \* what each page of kernel memory holds, page tables' entries apart
    user,       \* the page each user address is mapped to
    tables,     \* the pages of the user half's tables
    proc,       \* of process_data: text_sections, data_sections, proc_stack_kvirt
    current,    \* global_proc_data.current_process; None is the idle process
    \* History variables.
    view,       \* what each process has loaded, inherited or stored at each address
    split,      \* the processes with a segment whose pages a table comes between
    spilled     \* a program has stored beyond its data pages

space == <<memory, user, tables>>
history == <<view, split, spilled>>
allvars == <<vars, space, proc, current, history>>

NoProcess == [text |-> <<>>, data |-> <<>>, stack |-> None, spill |-> FALSE]
Created == {p \in Proc : proc[p].stack # None}

-----------------------------------------------------------------------------
(***************************************************************************)
(* The kernel's calls work on a machine: the allocator and all memory.     *)
(***************************************************************************)
Machine == [kernel |-> kernel, owned |-> owned, memory |-> memory, user |-> user, tables |-> tables]

Become(m) ==
    /\ kernel' = m.kernel /\ owned' = m.owned
    /\ memory' = m.memory /\ user' = m.user /\ tables' = m.tables

\* page_allocate_kernel(n), and the page it returns.
Taken(m) == ReturnedFrom(m.kernel)
page_allocate_kernel(m, n) ==
    [m EXCEPT !.kernel = page_allocate_kernel_linear(@, n),
              !.owned = @ \cup {Taken(m) + i : i \in 0 .. n - 1}]

\* A table that is missing is allocated.
SetUp(m, t) ==
    IF m.tables[t] = None THEN [page_allocate_kernel(m, 1) EXCEPT !.tables[t] = Taken(m)] ELSE m

\* page_map: the tables that are missing are allocated first.
page_map(m, v, page) ==
    LET way == TablesOf(v)
    IN  [SetUp(SetUp(SetUp(m, way[1]), way[2]), way[3]) EXCEPT !.user[v] = Walk(m.kernel, page)]

\* The loops that map the pages of a section.
MapSection(m, section, pages) ==
    LET after[i \in 0 .. Len(pages)] ==
          IF i = 0 THEN m ELSE page_map(after[i - 1], <<section, i>>, pages[i])
    IN  after[Len(pages)]

StackOf(p) == [i \in 1 .. StackPages |-> p.stack + i - 1]

\* The loops that allocate the pages of a section one by one.
Another(b) == [machine |-> page_allocate_kernel(b.machine, 1),
               pages |-> Append(b.pages, Taken(b.machine))]
AllocateSection(m, n) ==
    LET after[i \in 0 .. n] ==
          IF i = 0 THEN [machine |-> m, pages |-> <<>>] ELSE Another(after[i - 1])
    IN  after[n]

-----------------------------------------------------------------------------
(***************************************************************************)
(* Loading.                                                                *)
(***************************************************************************)
\* The memcpy of elf_loader_load_binary: it goes on from the first page, whatever
\* pages come next.
Filled(m, pages, image, section) ==
    [m EXCEPT !.memory = [q \in DOMAIN @ |->
        IF q - pages[1] \in 0 .. Len(pages) - 1
        THEN Loaded(image, <<section, q - pages[1] + 1>>) ELSE @[q]]]

\* elf_loader_load_binary for one program header; without one the section stays
\* as it was.
LoadSegment(m, image, section, old) ==
    IF image[section] = 0 THEN [machine |-> m, pages |-> old]
    ELSE LET s == AllocateSection(m, image[section])
         IN  [s EXCEPT !.machine = Filled(@, s.pages, image, section)]

\* The headers of text and data, in this order, then the stack.
elf_loader_load(m, image, old) ==
    LET text == LoadSegment(m, image, "text", old.text)
        data == LoadSegment(text.machine, image, "data", old.data)
    IN  [machine |-> page_allocate_kernel(data.machine, StackPages),
         p |-> [text |-> text.pages, data |-> data.pages, stack |-> Taken(data.machine),
                spill |-> image.spill]]

\* A table was set aside between two pages of a section.
IsSplit(pages) == \E i \in 1 .. Len(pages) - 1 : pages[i + 1] # pages[i] + 1

\* What a program finds when it starts.
ViewOf(image, old) ==
    [v \in Vaddr |-> CASE v[1] = "stack" -> Zero
                       [] v[1] = "data" /\ image.data = 0 -> old[v]
                       [] OTHER -> Loaded(image, v)]

\* The first program is loaded at boot; its sections are mapped, its stack is not.
process_setup_init(image) ==
    LET loaded == elf_loader_load(Machine, image, NoProcess)
        data == MapSection(loaded.machine, "data", loaded.p.data)
    IN  /\ Created = {}
        /\ Become(MapSection(data, "text", loaded.p.text))
        /\ proc' = [proc EXCEPT ![First] = loaded.p]
        /\ view' = [view EXCEPT ![First] = ViewOf(image, @)]
        /\ split' = IF IsSplit(loaded.p.text) \/ IsSplit(loaded.p.data) THEN {First} ELSE {}
        /\ UNCHANGED <<first, current, spilled>>

\* execve (and execm) on an ELF file.
execve(image) ==
    LET loaded == elf_loader_load(Machine, image, proc[current])
        text == MapSection(page_map(loaded.machine, <<"stack", 1>>, loaded.p.stack),
                           "text", loaded.p.text)
        data == MapSection(text, "data", loaded.p.data)
    IN  /\ current \in Proc
        /\ Become(MapSection(data, "stack", StackOf(loaded.p)))
        /\ proc' = [proc EXCEPT ![current] = loaded.p]
        /\ view' = [view EXCEPT ![current] = ViewOf(image, @)]
        /\ split' = split \cup (IF IsSplit(loaded.p.text) \/ IsSplit(loaded.p.data)
                                THEN {current} ELSE {})
        /\ UNCHANGED <<first, current, spilled>>

-----------------------------------------------------------------------------
(***************************************************************************)
(* fork: stack, data and text, each section with a page for its table.     *)
(***************************************************************************)
\* memcpy from page to page.
Copied(m, from, to) ==
    [m EXCEPT !.memory = [q \in DOMAIN @ |->
        IF \E i \in DOMAIN to : to[i] = q
        THEN @[from[CHOOSE i \in DOMAIN to : to[i] = q]] ELSE @[q]]]

\* Wrong on purpose (see "mutants" in PROJECT.json): the child is given the
\* parent's pages.
ForkSection_Shares(m, pages) == [machine |-> page_allocate_kernel(m, 1), pages |-> pages]

ForkSection(m, pages) ==
    LET s == AllocateSection(page_allocate_kernel(m, 1), Len(pages))
    IN  [s EXCEPT !.machine = Copied(@, pages, s.pages)]

fork(child) ==
    LET p == proc[current]
        stack == [i \in 1 .. StackPages |-> Taken(Machine) + i - 1]
        data == ForkSection(Copied(page_allocate_kernel(Machine, StackPages), StackOf(p), stack),
                            p.data)
        text == ForkSection(data.machine, p.text)
    IN  /\ current \in Proc /\ child \in Proc \ Created
        /\ Become(text.machine)
        /\ proc' = [proc EXCEPT ![child] = [text |-> text.pages, data |-> data.pages,
                                            stack |-> stack[1], spill |-> p.spill]]
        /\ view' = [view EXCEPT ![child] = view[current]]
        /\ split' = split \cup (IF current \in split THEN {child} ELSE {})
        /\ UNCHANGED <<first, current, spilled>>

-----------------------------------------------------------------------------
\* The second half of process_sched_yield.
Switched(m, p) ==
    MapSection(MapSection(MapSection(m, "data", p.data), "text", p.text), "stack", StackOf(p))

process_sched_yield(next) ==
    /\ next \in Created /\ next # current
    /\ Become(Switched(Machine, proc[next]))
    /\ current' = next
    /\ UNCHANGED <<first, proc, history>>

\* The idle process has neither text nor data, and its record says 0 for the address
\* and for the physical address of its stack.
YieldToIdle ==
    /\ current \in Proc
    /\ current' = None
    /\ user' = [v \in Vaddr |-> IF v[1] # "stack" /\ Position(v) < StackPages THEN Low ELSE user[v]]
    /\ UNCHANGED <<vars, memory, tables, proc, history>>

\* The addresses of a process's own pages, and the page behind one.
Own(p) == {v \in Vaddr : v[1] = "stack" \/ v[2] <= Len(proc[p][v[1]])}
PageAt(p, v) == IF v[1] = "stack" THEN proc[p].stack + v[2] - 1 ELSE proc[p][v[1]][v[2]]

\* A program writes to its data or its stack.  Where nothing is mapped the CPU
\* raises an exception instead; where another process has left a page it does not.
Store(v) ==
    /\ current \in Proc
    /\ v \in Own(current) \/ (proc[current].spill /\ v = <<"data", Len(proc[current].data) + 1>>)
    /\ user[v] # None
    /\ memory' = [memory EXCEPT ![user[v]] = Stored(current)]
    /\ view' = [view EXCEPT ![current][v] = Stored(current)]
    /\ spilled' = (spilled \/ v \notin Own(current))
    /\ UNCHANGED <<vars, user, tables, proc, current, split>>

\* Drivers and the heap's page tables.
OtherCalls ==
    /\ \E n \in KernelCalls : AllocateLinear(n) \/ AllocateMmio(n)
    /\ UNCHANGED <<space, proc, current, history>>

\* The bound on pages leaves room for the largest call, with a spare table for each
\* page that is allocated on its own.
Room == kernel.next + 4 * MaxImage + StackPages + 15 < MaxPage

InitSpace ==
    /\ Init
    /\ memory = [q \in Page \cup {Low} |-> Zero]
    /\ user = [v \in Vaddr |-> None]
    /\ tables = [t \in UserTable |-> None]
    /\ proc = [p \in Proc |-> NoProcess] /\ current = None
    /\ view = [p \in Proc |-> [v \in Vaddr |-> Zero]]
    /\ split = {} /\ spilled = FALSE

NextSpace ==
    \/ /\ Room
       /\ \/ \E image \in Image : process_setup_init(image) \/ execve(image)
          \/ \E child \in Proc : fork(child)
          \/ \E next \in Proc : process_sched_yield(next)
          \/ OtherCalls
    \/ YieldToIdle
    \/ \E v \in Writes : Store(v)

SpecSpace == InitSpace /\ [][NextSpace]_allvars

-----------------------------------------------------------------------------
TypeOKSpace ==
    /\ TypeOK
    /\ DOMAIN memory = Page \cup {Low}
    /\ user \in [Vaddr -> Page \cup {None, Low}]
    /\ tables \in [UserTable -> Page \cup {None}]
    /\ current \in Proc \cup {None} /\ split \subseteq Proc /\ spilled \in BOOLEAN
    /\ \A p \in Proc : /\ ToSet(proc[p].text) \cup ToSet(proc[p].data) \subseteq Page
                       /\ proc[p].stack \in Page \cup {None}

\* Every process finds at its addresses what it has loaded, inherited from its
\* parent or stored itself, whatever runs in between: no page is shared after a
\* fork, none is lost at a switch, none is taken for something else.  Excepted are
\* a program whose pages a table has come between when it was loaded, and what
\* happens once a program has stored beyond its data pages.
SeesOwnMemory ==
    /\ TypeOKSpace
    /\ spilled \/ \A p \in Created \ split : \A v \in Own(p) :
          /\ memory[PageAt(p, v)] = view[p][v]
          /\ p = current => user[v] = PageAt(p, v)

\* The pages that hold page tables hold nothing else and are never written by a
\* copy or a program: no caller owns a kernel table, no table serves two entries,
\* and user tables are set up once and apart from every section.
TablesAreWhole ==
    /\ TablesAreSeparate
    /\ split # {} \/ \A t \in ToSet(kernel.dir) \cup {kernel.new_pt} \cup ToSet(tables) :
          t \in Page => memory[t] = Zero
    /\ \A t, w \in UserTable : tables[t] = tables[w] /\ tables[t] # None => t = w
=============================================================================
