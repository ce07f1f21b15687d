----------------------------- MODULE VirtualFs -----------------------------
(***************************************************************************)
(* VirtualFs of src/composition.rs: a filesystem that programs use as any  *)
(* other (inner_mut) and that the host fills with preload_file.  Its mount *)
(* table and its read-only flag are stored and read back, and no call of   *)
(* the filesystem asks for them: they are left out.                        *)
(***************************************************************************)
EXTENDS WasiFilesystem

\* Slip: the directories are made for all of the path, its last name included.
PreloadParentsAll(path) == Descended([nodes |-> nodes, current |-> Root], path)
\* create_directory_at makes the directories above the file, from the root.
PreloadParents(path) == Descended([nodes |-> nodes, current |-> Root], Front(path))

\* Two descriptors are taken, for the root and for the file; the nodes in left are
\* still open under them when the call returns.
LeaveOpen(left) ==
    LET opened == nextFd .. nextFd + Len(left) - 1 IN
    fds' = [fd \in DOMAIN fds \union opened |->
               IF fd \in opened THEN [node |-> left[fd - nextFd + 1], cursor |-> 0] ELSE fds[fd]]

\* preload_file.  An error ends it where it happens: what was made until then stays,
\* and so do the descriptors.  That of the root is never closed.  The file is not
\* truncated: of a longer one the end stays.
PreloadFile(path, contents) ==
    LET parents == PreloadParents(path)
        found == WalkIn(parents.nodes, Root, path)
        new == Cardinality(DOMAIN parents.nodes)
        opened == IF found = NoEntry
                  THEN Bind(Push(parents.nodes, File(<<>>)), parents.current, Last(path), new)
                  ELSE parents.nodes
        i == IF found = NoEntry THEN new ELSE found
    IN
    /\ nextFd + 1 <= MaxFd
    /\ \/ /\ nextFd' = nextFd + 1
          /\ result' = "err"
          /\ parents.current < 0
          /\ Cardinality(DOMAIN parents.nodes) <= MaxNodes
          /\ nodes' = parents.nodes
          /\ LeaveOpen(<<Root>>)
       \/ /\ nextFd' = nextFd + 2
          /\ parents.current >= 0 /\ Cardinality(DOMAIN opened) <= MaxNodes
          /\ \/ /\ opened[i].dir
                /\ nodes' = opened
                /\ LeaveOpen(<<Root, i>>)
                /\ result' = "err"
             \/ /\ ~ opened[i].dir
                /\ nodes' = [opened EXCEPT ![i] = File(Overwritten(@.data, 0, contents))]
                /\ LeaveOpen(<<Root>>)
                /\ result' = "ok"

VirtualNext ==
    \/ Next
    \/ \E path \in Path, contents \in SeqOf(Byte, MaxSize) : PreloadFile(path, contents)

VirtualSpec == Init /\ [][VirtualNext]_vars

-----------------------------------------------------------------------------
(***************************************************************************)
(* Properties.                                                             *)
(***************************************************************************)

\* A file stands in the way of the path, or a directory has its name.
InTheWay(path) ==
    \/ \E k \in 1 .. Len(path) - 1 :
           LET i == Walk(Root, SubSeq(path, 1, k)) IN i >= 0 /\ ~ nodes[i].dir
    \/ LET i == Walk(Root, path) IN i >= 0 /\ nodes[i].dir

\* A preload, also one that fails half way, takes no name away and changes no file
\* but its own, whatever programs did to the tree before; it fails only where the
\* tree has something of the other kind, and what it wrote is found by its path.
PreloadsOnlyAdd ==
    [][\A path \in Path, contents \in SeqOf(Byte, MaxSize) :
           PreloadFile(path, contents) =>
               /\ \A d \in DOMAIN nodes : \A n \in DOMAIN nodes[d].entries :
                      n \in DOMAIN nodes'[d].entries /\ nodes'[d].entries[n] = nodes[d].entries[n]
               /\ \A i \in DOMAIN nodes : i # Walk(Root, path) => nodes'[i].data = nodes[i].data
               /\ result' = "err" <=> InTheWay(path)
               /\ result' = "ok" =>
                      LET i == WalkIn(nodes', Root, path) IN
                      i >= 0 /\ IsPrefix(contents, nodes'[i].data)]_vars
=============================================================================
