-------------------------- MODULE WasiFilesystem ---------------------------
(***************************************************************************)
(* The in-memory filesystem of src/filesystem.rs: a vector of nodes that   *)
(* only grows, directories that map names to nodes, and descriptors with a *)
(* cursor.  Timestamps and descriptor flags, which no operation reads, are *)
(* left out; an operation that fails without touching the state is no step.*)
(***************************************************************************)
EXTENDS Integers, FiniteSets, SequencesExt

CONSTANTS
    Name,      \* names a directory can hold
    Byte,      \* bytes a program writes
    Zero,      \* the byte that fills a gap
    MaxDepth,  \* bound: components in a path
    MaxNodes,  \* bound: nodes ever created
    MaxFd,     \* bound: the last descriptor handed out
    MaxSize    \* bound: bytes in a file, and in one read or write

ASSUME FsAssumption ==
    /\ Zero \notin Byte
    /\ MaxDepth \in Nat /\ MaxNodes \in Nat \ {0} /\ MaxSize \in Nat
    /\ MaxFd \in Nat \ {0, 1}

Path == SeqOf(Name, MaxDepth)
FirstFd == 3    \* 0, 1 and 2 are stdin, stdout and stderr
Root == 0

VARIABLES
    nodes,    \* nodes[i]: a file with its data or a directory with its entries
    fds,      \* open descriptors: the node and the cursor of each
    nextFd,   \* the next descriptor
    result    \* what the last call returned

vars == <<nodes, fds, nextFd, result>>

File(data) == [dir |-> FALSE, data |-> data, entries |-> <<>>]
Directory(entries) == [dir |-> TRUE, data |-> <<>>, entries |-> entries]
EmptyDirectory == Directory([n \in {} |-> Root])

Init ==
    /\ nodes = [i \in {Root} |-> EmptyDirectory]
    /\ fds = [fd \in {} |-> <<>>]
    /\ nextFd = FirstFd
    /\ result = "ok"

-----------------------------------------------------------------------------
(***************************************************************************)
(* Paths.  A walk yields a node or one of two errors.                      *)
(***************************************************************************)

NoEntry == -1
NotDir == -2

\* The walk in the nodes ns from d along the path.
WalkIn(ns, d, path) ==
    LET at[k \in 0 .. Len(path)] ==
            IF k = 0 THEN d
            ELSE LET i == at[k - 1] IN
                 IF i < 0 THEN i
                 ELSE IF ~ ns[i].dir THEN NotDir
                 ELSE IF path[k] \in DOMAIN ns[i].entries THEN ns[i].entries[path[k]]
                 ELSE NoEntry
    IN at[Len(path)]

Walk(d, path) == WalkIn(nodes, d, path)

\* resolve_parent_and_name, for a path that is not empty.
Parent(d, path) == Walk(d, Front(path))

\* The directory d with the name bound to the node i, or unbound.
Bind(ns, d, name, i) ==
    [ns EXCEPT ![d].entries =
        [n \in DOMAIN @ \union {name} |-> IF n = name THEN i ELSE @[n]]]
\* Slip: the old name is kept.
UnbindForgotten(ns, d, name) == ns
\* Slip: the entries are cleared.
UnbindAll(ns, d, name) == [ns EXCEPT ![d] = EmptyDirectory]
Unbind(ns, d, name) ==
    [ns EXCEPT ![d].entries = [n \in DOMAIN @ \ {name} |-> @[n]]]

\* Slip: the length of the vector is taken for its last index.
FreshLast == Cardinality(DOMAIN nodes) - 1
Fresh == Cardinality(DOMAIN nodes)
Push(ns, node) ==
    LET i == Cardinality(DOMAIN ns) IN
    [k \in DOMAIN ns \union {i} |-> IF k = i THEN node ELSE ns[k]]

AllocFd(i) ==
    /\ nextFd <= MaxFd
    /\ fds' = [fd \in DOMAIN fds \union {nextFd} |->
                  IF fd = nextFd THEN [node |-> i, cursor |-> 0] ELSE fds[fd]]
    /\ nextFd' = nextFd + 1

-----------------------------------------------------------------------------
(***************************************************************************)
(* Descriptors.                                                            *)
(***************************************************************************)

OpenRoot ==
    /\ AllocFd(Root)
    /\ result' = "ok"
    /\ UNCHANGED nodes

\* open_at resolves the path.
OpenExisting(dirFd, path, exclusive, directory, truncate) ==
    LET i == Walk(fds[dirFd].node, path) IN
    /\ AllocFd(i)
    /\ ~ exclusive
    /\ i >= 0
    /\ directory => nodes[i].dir
    /\ nodes' = IF truncate /\ ~ nodes[i].dir THEN [nodes EXCEPT ![i] = File(<<>>)] ELSE nodes
    /\ result' = "ok"

\* open_at creates what it did not find.  The node is pushed before the parent is
\* looked up: where the parent is missing the call fails and the node stays.
OpenCreate(dirFd, path, directory) ==
    LET d == fds[dirFd].node
        new == IF directory THEN EmptyDirectory ELSE File(<<>>)
        parent == Parent(d, path)
    IN
    /\ Fresh < MaxNodes
    /\ Walk(d, path) = NoEntry
    /\ \/ /\ parent >= 0
          /\ nodes' = Bind(Push(nodes, new), parent, Last(path), Fresh)
          /\ AllocFd(Fresh)
          /\ result' = "ok"
       \/ /\ parent < 0
          /\ nodes' = Push(nodes, new)
          /\ result' = "err"
          /\ UNCHANGED <<fds, nextFd>>

Close(fd) ==
    /\ fds' = [k \in DOMAIN fds \ {fd} |-> fds[k]]
    /\ result' = "ok"
    /\ UNCHANGED <<nodes, nextFd>>

\* A call on a descriptor that was closed fails (Err(BadDescriptor)).
BadDescriptor ==
    /\ DOMAIN fds # FirstFd .. nextFd - 1
    /\ result' = "err"
    /\ UNCHANGED <<nodes, fds, nextFd>>

\* The slice data[cursor..end] panics when the cursor is past the end of the data.
ReadPanics(fd) ==
    ~ nodes[fds[fd].node].dir /\ fds[fd].cursor > Len(nodes[fds[fd].node].data)

\* Slip: the cursor moves by the length asked for.
ReadUnclamped(fd, n) ==
    /\ ~ nodes[fds[fd].node].dir
    /\ ~ ReadPanics(fd)
    /\ fds' = [fds EXCEPT ![fd].cursor = @ + n]
    /\ result' = "ok"
    /\ UNCHANGED <<nodes, nextFd>>

Read(fd, n) ==
    LET f == nodes[fds[fd].node]
        end == fds[fd].cursor + n
    IN
    /\ ~ f.dir
    /\ ~ ReadPanics(fd)
    /\ fds' = [fds EXCEPT ![fd].cursor = IF end <= Len(f.data) THEN end ELSE Len(f.data)]
    /\ result' = "ok"
    /\ UNCHANGED <<nodes, nextFd>>

\* The data after the bytes were copied to it at the offset start.
Overwritten(data, start, bytes) ==
    LET end == start + Len(bytes) IN
    [k \in 1 .. IF end > Len(data) THEN end ELSE Len(data) |->
        IF k > start /\ k <= end THEN bytes[k - start]
        ELSE IF k <= Len(data) THEN data[k]
        ELSE Zero]

Write(fd, bytes) ==
    LET i == fds[fd].node
        start == fds[fd].cursor
    IN
    /\ ~ nodes[i].dir
    /\ start + Len(bytes) <= MaxSize
    /\ nodes' = [nodes EXCEPT ![i] = File(Overwritten(@.data, start, bytes))]
    /\ fds' = [fds EXCEPT ![fd].cursor = start + Len(bytes)]
    /\ result' = "ok"
    /\ UNCHANGED nextFd

-----------------------------------------------------------------------------
(***************************************************************************)
(* Names.                                                                  *)
(***************************************************************************)

\* Slip: the new directory is current before it gets its name.
DescendFirst(st, name) ==
    IF st.current < 0 THEN st
    ELSE LET i == WalkIn(st.nodes, st.current, <<name>>) IN
         IF i >= 0 THEN [st EXCEPT !.current = IF st.nodes[i].dir THEN i ELSE NotDir]
         ELSE IF i = NotDir THEN [st EXCEPT !.current = NotDir]
         ELSE LET new == Cardinality(DOMAIN st.nodes) IN
              [nodes |-> Bind(Push(st.nodes, EmptyDirectory), new, name, new),
               current |-> new]
\* One iteration of create_directory_at: it descends into the component, or
\* creates it.  It stops at a file (Exist) and at a start that is a file (NotDir).
Descend(st, name) ==
    IF st.current < 0 THEN st
    ELSE LET i == WalkIn(st.nodes, st.current, <<name>>) IN
         IF i >= 0 THEN [st EXCEPT !.current = IF st.nodes[i].dir THEN i ELSE NotDir]
         ELSE IF i = NotDir THEN [st EXCEPT !.current = NotDir]
         ELSE LET new == Cardinality(DOMAIN st.nodes) IN
              [nodes |-> Bind(Push(st.nodes, EmptyDirectory), st.current, name, new),
               current |-> new]

\* All of its iterations, from the state st.
Descended(st, path) ==
    LET at[k \in 0 .. Len(path)] == IF k = 0 THEN st ELSE Descend(at[k - 1], path[k])
    IN at[Len(path)]

CreateDirectoryAt(dirFd, path) ==
    LET end == Descended([nodes |-> nodes, current |-> fds[dirFd].node], path) IN
    /\ Cardinality(DOMAIN end.nodes) <= MaxNodes
    /\ nodes' = end.nodes
    /\ result' = IF end.current >= 0 THEN "ok" ELSE "err"
    /\ UNCHANGED <<fds, nextFd>>

\* The entry a path that is not empty names: its parent is looked up first.
Entry(d, path) == LET parent == Parent(d, path) IN
                  IF parent < 0 THEN parent ELSE Walk(parent, <<Last(path)>>)

UnlinkFileAt(dirFd, path) ==
    LET d == fds[dirFd].node
        i == Entry(d, path)
    IN
    /\ path # <<>>
    /\ i >= 0
    /\ ~ nodes[i].dir
    /\ nodes' = Unbind(nodes, Parent(d, path), Last(path))
    /\ result' = "ok"
    /\ UNCHANGED <<fds, nextFd>>

RemoveDirectoryAt(dirFd, path) ==
    LET d == fds[dirFd].node
        i == Entry(d, path)
    IN
    /\ path # <<>>
    /\ i >= 0
    /\ nodes[i].dir /\ DOMAIN nodes[i].entries = {}
    /\ nodes' = Unbind(nodes, Parent(d, path), Last(path))
    /\ result' = "ok"
    /\ UNCHANGED <<fds, nextFd>>

\* rename_at finds the entry to be renamed.
RenameFinds(oldFd, oldPath) == oldPath # <<>> /\ Entry(fds[oldFd].node, oldPath) >= 0

\* The rest of rename_at.  The old name goes before the new parent is found to be a
\* file, which fails.
RenameAt(oldFd, oldPath, newFd, newPath) ==
    LET old == fds[oldFd].node
        i == Entry(old, oldPath)
        newParent == Parent(fds[newFd].node, newPath)
        removed == Unbind(nodes, Parent(old, oldPath), Last(oldPath))
    IN
    /\ newPath # <<>>
    /\ newParent >= 0
    /\ \/ /\ nodes[newParent].dir
          /\ nodes' = Bind(removed, newParent, Last(newPath), i)
          /\ result' = "ok"
       \/ /\ ~ nodes[newParent].dir
          /\ nodes' = removed
          /\ result' = "err"
    /\ UNCHANGED <<fds, nextFd>>

-----------------------------------------------------------------------------
Next ==
    \/ OpenRoot
    \/ BadDescriptor
    \/ \E fd \in DOMAIN fds :
        \/ Close(fd)
        \/ \E n \in 1 .. MaxSize : Read(fd, n)
        \/ \E bytes \in SeqOf(Byte, MaxSize) : Write(fd, bytes)
    \/ \E fd \in DOMAIN fds, path \in Path :
        \/ \E exclusive, directory, truncate \in BOOLEAN :
               OpenExisting(fd, path, exclusive, directory, truncate)
        \/ \E directory \in BOOLEAN : OpenCreate(fd, path, directory)
        \/ CreateDirectoryAt(fd, path)
        \/ UnlinkFileAt(fd, path)
        \/ RemoveDirectoryAt(fd, path)
    \/ \E oldFd \in DOMAIN fds, oldPath \in Path :
        /\ RenameFinds(oldFd, oldPath)
        /\ \E newFd \in DOMAIN fds, newPath \in Path : RenameAt(oldFd, oldPath, newFd, newPath)

Spec == Init /\ [][Next]_vars

-----------------------------------------------------------------------------
(***************************************************************************)
(* Properties.                                                             *)
(***************************************************************************)

\* Every node, entry and descriptor has its type: entries and descriptors name
\* nodes that exist, files hold data and directories entries.
TypeOK ==
    /\ \E n \in 1 .. MaxNodes : DOMAIN nodes = 0 .. n - 1
    /\ \A i \in DOMAIN nodes :
        /\ nodes[i].dir \in BOOLEAN
        /\ nodes[i].data \in SeqOf(Byte \union {Zero}, MaxSize)
        /\ DOMAIN nodes[i].entries \subseteq Name
        /\ \A n \in DOMAIN nodes[i].entries : nodes[i].entries[n] \in DOMAIN nodes
        /\ IF nodes[i].dir THEN nodes[i].data = <<>> ELSE DOMAIN nodes[i].entries = {}
    /\ DOMAIN fds \subseteq FirstFd .. nextFd - 1
    /\ \A fd \in DOMAIN fds : fds[fd].node \in DOMAIN nodes /\ fds[fd].cursor \in Nat
    /\ nextFd \in FirstFd .. MaxFd + 1
    /\ result \in {"ok", "err"}

\* The names of a node: the directories and entries that lead to it.
NamesOf(i) == {dn \in (DOMAIN nodes) \X Name :
                  dn[2] \in DOMAIN nodes[dn[1]].entries /\ nodes[dn[1]].entries[dn[2]] = i}
Named(i) == \E d \in DOMAIN nodes : \E n \in DOMAIN nodes[d].entries : nodes[d].entries[n] = i
Opened(i) == \E fd \in DOMAIN fds : fds[fd].node = i

\* stat reports nlink 1 for every file: no sequence of creations, renames (onto
\* itself, over another, through other descriptors) and unlinks gives a node two
\* names, and the root never gets one.
OneName == /\ NamesOf(Root) = {}
           /\ \A i \in DOMAIN nodes : Cardinality(NamesOf(i)) <= 1

\* Every node has its type and at most one name, the root has none, and every entry
\* and descriptor leads to a node.  Nothing is said of what is reached from the root:
\* a rename can cut a directory off from it (LoopsOnlyByRename).
NodesSound == TypeOK /\ OneName

\* A node without a name and without a descriptor is gone: no call, through any
\* descriptor, of an unlinked directory too, brings it back.
UnlinkedStaysGone ==
    [][\A i \in DOMAIN nodes \ {Root} :
           ~ Named(i) /\ ~ Opened(i) => ~ Named(i)' /\ ~ Opened(i)']_vars

\* Every name: its directory, itself and the node it leads to.
Names(ns) == UNION {{<<d, n, ns[d].entries[n]>> : n \in DOMAIN ns[d].entries} : d \in DOMAIN ns}

\* The nodes that the directory d holds, where there is one.
Held(ns, d) == IF d \in DOMAIN ns THEN {ns[d].entries[n] : n \in DOMAIN ns[d].entries} ELSE {}

\* Names lead from i to j, or they are the same: every set of nodes with i and without
\* j has a directory that holds a node outside of it.
Reaches(ns, i, j) ==
    \A C \in SUBSET (DOMAIN ns \ {j}) : i \in C => \E d \in C : ~ (Held(ns, d) \subseteq C)

\* rename_at does not ask whether the new parent is below what it moves.  Such a
\* rename is the only step that closes a loop of directories (by a new name, in a
\* directory that the named one reaches), which nothing outside of it leads to: no
\* other call, no rename to elsewhere and no preload closes one, in any order.
LoopsOnlyByRename ==
    [][nodes' # nodes =>
           \A d \in DOMAIN nodes' :
               \A i \in Held(nodes', d) \ Held(nodes, d) :
                   Reaches(nodes', i, d) =>
                       /\ Reaches(nodes, i, d)
                       /\ \E oldFd \in DOMAIN fds, oldPath \in Path :
                             /\ RenameFinds(oldFd, oldPath)
                             /\ Entry(fds[oldFd].node, oldPath) = i
                             /\ \E newFd \in DOMAIN fds, newPath \in Path :
                                   /\ Parent(fds[newFd].node, newPath) = d
                                   /\ RenameAt(oldFd, oldPath, newFd, newPath)]_vars

\* A call that fails half way changes no data, gives no name (create_directory_at and
\* preload_file, which make directories one by one, and open_at, which pushes a node
\* before it looks for the parent, among them), and takes one at most: the old name
\* of a rename into a file.
FailuresTakeLittle ==
    [][nodes' # nodes /\ result' = "err" =>
           /\ \A i \in DOMAIN nodes : nodes'[i].data = nodes[i].data
           /\ Names(nodes') \subseteq Names(nodes)
           /\ \A x, y \in Names(nodes) \ Names(nodes') : x = y]_vars

\* A cursor gets past the end of its file, where a read panics, only when the file
\* is opened once more with truncation while the descriptor is open.
PastEndOnlyByTruncation ==
    [][\A fd \in DOMAIN fds \intersect DOMAIN fds' :
           ~ ReadPanics(fd) /\ ReadPanics(fd)' =>
               /\ nodes'[fds[fd].node].data = <<>>
               /\ \E other \in DOMAIN fds' \ DOMAIN fds : fds'[other].node = fds[fd].node]_vars
=============================================================================
