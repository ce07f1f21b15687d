# fajar-wasi-p2: a TLA+ development

This directory specifies, model-checks and partly proves the stateful core of
`fajar-wasi-p2`, the WASI Preview 2 support library of Fajar Lang (`src/*.rs`).
The crate simulates a component-model host in memory: a parser for WIT, a builder
of component binaries, the canonical ABI, handle tables, a filesystem, sockets,
streams, HTTP, a component linker and a workspace tool. Nothing is spawned and
nothing is persisted: every operation is a method on a structure its caller owns
(`&mut self`). What is hard here is therefore not threads but *histories*: long
sequences of legal calls, by several users of one structure, that leave two of its
parts disagreeing; calls that fail half way; and arithmetic at its limits.

Run a model with `tlc -config X.cfg M`, check a proof with `tlapm M.tla`.

## Inventory

| part | source | state | operations | hard behaviour |
|---|---|---|---|---|
| handle table, resources, batch drops | `resources.rs` | slots with generations, free list, borrow counts, parent and child indexes | alloc, free, free_recursive, get_mut, borrow, release_borrow, add_child, batch_drop(_recursive) | stale handles, slot reuse, borrows held across frees, reparenting, half-done recursive drops |
| filesystem | `filesystem.rs` | node vector, directory entries, descriptors with cursors | open_at, read, write, close, create_directory_at, unlink_file_at, remove_directory_at, rename_at | two descriptors on one file, renames (into their own subtree, too), partial failures |
| sockets | `sockets.rs` | TCP and UDP sockets, address registries, handle and port counters, accept and datagram queues | create, bind, connect in two calls, listen, accept, send, receive, deliver, close | shared counters and their wrap, closing while queued, address reuse |
| name resolution | `sockets.rs` | a map of names | add_record, resolve | none |
| streams, splice, poll | `streams.rs` | buffers, counters, closed flags, subscriptions | push, read, write, flush, close, splice, subscribe, poll | ordering, loss on closed streams, stale readiness |
| clocks, random | `streams.rs` | a seed | now, fill | none |
| canonical ABI memory | `component.rs` | bytes, bump pointer | alloc, write, read, lower, lift, realloc | overflow, memory's end |
| component builder, validation | `component.rs` | types, imports, exports, core module | add_*, build, validate | length encodings, cut bytes |
| adapter, size report | `composition.rs` | name maps | adapt, analyze | as above |
| workspace | `composition.rs` | members and their dependencies | add_member, validate, build_order | recursion, cycles, termination |
| instances, linker | `composition.rs` | instances with imports and exports, links, exit state | register, link, add_export, run, check_all_imports | links that outlive what they link |
| registry, import checker | `composition.rs` | interfaces by path, requirements, providers | register, resolve, resolve_flexible, require, provide, check | versions, the order of a hash map |
| virtual filesystem | `composition.rs` | a filesystem, mounts | preload_file | half-done preloads, leaked descriptors |
| HTTP messages | `http.rs` | a list of headers, a body | constructors, add, get, delete | several values of one name |
| HTTP client, router | `http.rs` | mocked responses, history; routes, middleware, directories | mock, handle; route, use_middleware, serve_static, handle | which of several registrations answers |
| virtual environment | `deployment.rs` | a list of files, settings | add_file, add_readonly_file, write_file, read_file | several files of one path |
| deployment tables | `deployment.rs` | feature tables, benchmark and conformance lists | reports, TOML | none |
| WIT lexer, parser | `wit_lexer.rs`, `wit_parser.rs` | tokens, position, call stack, document | parse_document and the parse functions | nesting, declarations made twice |
| WIT type mapping | `wit_types.rs` | maps of definitions, fields, cases and imports | register_type_def, register_use, map_type_ref | order of registration |
| flag sets | `wit_types.rs` | a mask over the members of a flags type | set, clear, contains, union, intersection | the width of the mask |

The parts call each other in few places: the builder and the type mapper read the
parser's document, the adapter drives the builder, `VirtualFs` wraps the filesystem,
the TCP and UDP halves of a `SocketTable` share two counters, pollables name streams
of a `StreamTable`. The linker, the interface registry and the import checker do not ask
one another: a host tells the checker what is provided, under any name it likes. What
makes each part correct is stated with its module below; `PROJECT.json` lists the
hazards, each at its line.

## Modules and how they correspond to the code

**HandleTable** (`resources.rs`). One variable per field of `HandleTable<T>`, with
the slots of `Slot::Occupied` and `Slot::Free`. Actions: `AllocReuse` and
`AllocAppend` are the two halves of `alloc`; `FreeOne`, `FreeRecursive`, `BatchDrop`
and the steps of `CallStep` are the dropping calls. A call that drops several
resources invokes the drop callback for each and may fail in between, so it runs as
one step per iteration of its loop, with the rest of the plan in `call`; `Collect` is
one iteration of the loop that collects descendants, with its stack in `call` too. While
`call` is not empty no other call starts. Ghosts: `issued` (all handles ever returned) and
`leases` (who holds which borrow). `OverflowChecks` chooses between a debug build
(an overflowing `generation + 1` panics: no step) and a release build (it wraps).
**ResourceStore** is what this promises the user: handles that are given out once,
retired for good, and not dropped while lent. `ImplementsStore` is the refinement.

**WasiFilesystem** (`filesystem.rs`). `nodes` is the node vector, which only grows,
`fds` the descriptor table, `nextFd` its counter. Paths are sequences of names. Error
paths that change something are disjuncts of their actions: `open_at` has pushed the new
node when it does not find the parent, and `rename_at` has taken the old name away when it
finds that the new parent is a file. `rename_at` does not ask whether the
new parent is below what it moves: then the moved directory holds itself, directly or
not, and nothing leads to it from the root. `NodesSound` therefore says what every node
has (its type, one name at most) and not that the nodes are a tree; that no other call
closes such a loop is `LoopsOnlyByRename`, for which `Reaches` is defined by closed sets.
What failing calls may leave behind is bounded by `FailuresTakeLittle`. Timestamps and descriptor
flags, which no operation decides on, are left out. **VirtualFs** (`composition.rs`)
extends it with `preload_file`, which makes the directories on the way, writes the
file and leaves the root's descriptor open, each of its failures included; its
`VirtualSpec` lets programs and the host share the filesystem. `WasiFilesystemMC` adds
symmetry.

**TcpSockets**, **UdpSockets**, **SocketTable** (`sockets.rs`). Each half has its
sockets and its map from addresses; `nextHandle` and `nextPort` are shared, so
SocketTable composes the halves by INSTANCE and lets their steps interleave. An
address is a port of the one simulated host; TCP buffers are lengths, a datagram is
its source. Ports are few and wrap, so that the ephemeral counter meets bound ports.

**Streams** (`streams.rs`). Every byte is a number of its own, so that a property can
follow it through reads, splices and flushes. `taken` and `origin` are ghosts. A poll
looks at pollables of streams and of timers; a timer is ready from the start.

**CanonicalMemory** (`component.rs`). `allocPtr` is the bump pointer, with 2^32
scaled down to `Limit` and the pages to `Capacity`; `OverflowChecks` as above. Sizes
are cut to 32 bits (`Cut`) as `as u32` does. The ghost `regions` holds each allocation
with what was lowered there.

**Workspace** (`composition.rs`). `validate`, the recursive `detect_cycle` (its calls
are `frames`, each at a position of its loop) and the sort of `build_order`, one turn
of a loop per step.

**ComponentBinary** (`component.rs`, `composition.rs`). The builder, the real bytes
of its encoding (names are as many equal letters as they are long), and the section
walk that `validate_component` and `SizeReport::analyze` share, over whole bytes and
over bytes cut short. `FromWorld` is the component of a WIT world, where
`wit_type_to_component` (`ValType`) makes every handle and every name a reference to
type 0, and `Adapt` the adapter, which wraps a core module and builds in one call.
The types come as constants, in layers: a type has only types of earlier layers
inside, which is what makes the recursive encoding well defined, and `IsValType` and
`IsRef` say what shape the code's enums give them. `ComponentBinaryMC` supplies one
type of every kind, in positions that could be confused.

**WitParser** (`wit_parser.rs`, token kinds of `wit_lexer.rs`). A parse function is a
sequence of tokens it will expect and functions it will call, chosen by the token it
peeks at; `calls` is the call stack flattened to one such sequence. `Enter` goes into a
function that starts alike whatever comes, `Choose` into one that peeks and matches,
`Advance` is `expect` and `expect_ident`, and `Deliver` an assignment to the result.
What the input is shows as it is peeked at (`ahead`). `document` holds the positions of
the names stored in each part of the result, and of those in local variables.

**ComponentLinker**, **WitRegistry**, **Composition** (`composition.rs`). The linker
has instances, which may be registered again, and links; the registry has the
interface paths, each a base and a version, and the checker what is required and
provided. `resolve_flexible` takes the first match of a hash map's iteration: the model
keeps, for each base, the version that comes first (`preferred`), which any new path
may change. `provide` is told any name. Composition interleaves the three, which share
nothing. `OnlyRegisterUnsettles` is about the linker: what `link` verified of a link stays
true until one of its ends is registered anew, and what `check_all_imports` lists changes
only by a registration or by a link that is sound. The checker is modelled and has no
property: what it reports is what it was told.

**HttpHeaders**, **HttpClient**, **HttpRouter** (`http.rs`), **VirtualEnvironment**
(`deployment.rs`). Four small objects that share nothing; **HostObjects** composes them
so that a behaviour is that of one of them, its `subject`. Names of headers are a key
and a spelling, URLs are sequences of pieces (so that one prefix can begin another),
a middleware is a function from endpoints to endpoints, and `order` is the order of
iteration over the static directories. **HeaderMap** is what a list of headers
promises: a list of values for each key, whatever the spelling; `ImplementsHeaderMap`
is the refinement. Of the environment, the list of files is modelled. `retain`,
`filter` and `find` over all these lists are `Filter` of **ListFilter**, as is the
`retain` that detaches a child in HandleTable.

**WitTypeMapper**, **FlagSet**, **WitTypes** (`wit_types.rs`). The items of documents
are registered one by one; types are terms with a kind, a name and arguments. An alias
is resolved when it is registered, so a name that comes later in the document is
still nominal for it. Names that differ in WIT may have one Fajar name. A flag set is a
set of bits over the members of its type, with the ghosts `names`, the names it was
given, and `known`, which is false once sets of two types were combined; `Width`
stands for the 64 bits of the mask, and a shift beyond it panics or wraps by
`OverflowChecks`. WitTypes makes flag sets of the flags types registered.

A call that fails without changing anything is no step in any of the modules. A
definition whose comment begins with "Slip" is not part of a specification: it is a
plausible mistake in the definition that follows it, and `PROJECT.json` names the
property that notices it.

## Runs

| run | shows | bounds, and why they are enough |
|---|---|---|
| HandleTable | the free list holds exactly the free slots, a lent resource survives, parents never form a cycle, what is below is dropped before what is above; the table implements ResourceStore | 3 slots, so cycles of length 3 and a child below a child; 2 generations, so every slot is reused once; lists of one child; batches of two, so that one drop may fail after another |
| WasiFilesystem | one name per node at most, unlinked nodes and closed descriptors stay gone, only a rename into the own subtree closes a loop, a failing call takes one name at most, cursors pass the end only by a truncation, preloads only add | paths of 2, 4 nodes, descriptors 3 to 5: a directory in a directory, a rename across and into its own subtree (a loop is there after three calls), a file open twice, a preload beside a program |
| SocketTable | listeners, queues and registrations of both protocols sharing counters; a client is accepted once | 3 sockets (a listener, a client, a rival), 2 ports, the ephemeral one wrapping onto the explicit one |
| Streams | bytes are in one place, in order, counted once, and lost only in a closed stream; readiness lasts until a byte is taken or the output closed | 3 streams of either kind, 3 bytes: enough to split, splice and overtake |
| CanonicalMemory | allocations are disjoint, values lift back, free memory stays clear | 20 bytes of an address space of 32, values of up to 2 words: allocations end before, at and after the memory's end; alignments 1, 2 and 8 |
| Workspace | the search and the sort agree with the graph, and `build_order` returns | all graphs of 3 names with up to 3 members and 2 dependencies each |
| ComponentBinary | sections are found with their sizes, encodings differ, a world's component can be read back | names and modules of length 1 or 0 and of 130 or 128, around the first LEB128 boundary; cuts within the header of the first section, just behind it, and within a long name; worlds of two items, whose signatures use every kind of reference |
| WitParser | brackets nest, names are kept | 19 tokens of the 24 kinds in the cfg (the other kinds only in the theorems): two constructors in one resource need 18. Kinds that differ in nothing the parser does (the primitives, enum and flags beside record) have one representative, and rarer kinds occur once per input |
| Composition | links and what `check_all_imports` lists go wrong by a registration only, a resolution moves only where a version is registered | 2 components, registered as a provider or as a consumer that exports something else and may add the first export, and 2 links: a component linked to itself, an import linked twice, a link that breaks and one that replaces it; three versions of one interface, so that two may be there before a third, and another interface |
| HostObjects | headers are a map to lists, the client's history is what it answered, later routes, directories and files leave earlier answers alone | 4 headers of 2 keys in 2 spellings; 3 requests; 2 routes, 2 middleware, 2 directories one prefix of which begins the other; 4 files of 2 paths |
| WitTypes | an alias means what its target meant, references move only with their definitions, masks stand for names | 3 items of 3 names, two with one Fajar name, in every order; a mask of 2 bits and up to 3 members, so that a member is beyond it |
| HandleTable_cycle | *violated*: `ListsAcyclic` | 3 slots |

Deadlock is checked except in Workspace (a build order that was returned is the end),
CanonicalMemory (an allocation that panics ends the run, and the number of
allocations is bounded), WitParser (a document parsed or refused is the end) and
WitTypes (the number of items is bounded).

**Fairness** is assumed once: Workspace's `Returns` assumes weak fairness of `Work`,
the turns of the loops of `build_order`. They run on one thread without waiting for
anything, so an enabled turn is taken. No other module assumes any: their operations
happen when a caller calls, and nothing says it will.

### What the violated run says

*Child lists can be a cycle.* `add_child` says it prevents cycles (`resources.rs:322`).
It looks at parents only; a freed child stays in its old parent's list, and a moved
child stays in its previous one. The traversal of `free_recursive` follows the lists
and then does not end. That the parents are acyclic does hold, and is proved.

### Met while modelling

Where the code and what is said of it part without a run of their own:

* With address reuse a second UDP bind takes over the registration of the first;
  closing the first socket removes it all the same (`sockets.rs:883`).
* A cursor is not moved when its file is truncated through another descriptor, and the
  read then slices past the end (`filesystem.rs:332-339`). `PastEndOnlyByTruncation`
  says that nothing else brings a cursor there.
* `rename_at`, documented as atomic (`filesystem.rs:541`), has removed the old name when
  it fails because the new parent is a file.
* `preload_file` creates a file "with the given contents" (`composition.rs:415`); the
  tail of a longer file that was there stays. No operation asks for the read-only flag
  of a `VirtualFs`.
* `ComponentLinker` is said to verify "that every import of every instance is satisfied by
  an export from another registered instance (matched by name)" (`composition.rs:221-223`).
  `link` (260-305) checks the one link it makes; it accepts a component as its own provider
  and an export of a different name than the import. A link stays when one of its ends is
  registered again without the export or import (253), and `check_all_imports` (327-343),
  which looks at the links alone, goes on counting the import as satisfied. In the model a
  component may import `io`, link that import to its own export `clock`, and be registered
  anew without either: nothing is reported.
* `ImportChecker::provide` (878) notes whatever name it is given; a satisfied `check` says
  that names were provided, not that anything registered has them.
* `rename_at` moves a directory into its own subtree (`filesystem.rs:553-580` has no check),
  which cuts the directory and all below it off from the root, each holding the other.
* The error for a cycle (`composition.rs:763`) names the two ends of the closing edge,
  not the cycle.
* A timer "resolves after `duration_ns`" (`streams.rs:380`) but is always ready; the
  seed `u64::MAX` leaves the random state zero (`streams.rs:474`, "Ensure non-zero").
* `write_file` "returns error if read-only or not found" (`deployment.rs:658`), but it
  creates a file that is not there.
* `borrow<T>` is documented as `&T` (`wit_types.rs:200`) and maps to `T`.
* `a:b@` without a version is accepted in a path (`wit_parser.rs:703-709`) though not in
  a package.

## Proofs

The theorems hold for every value of the constants that the named assumptions allow.
Some of these say what data are in Rust and bound nothing: bytes and words fit 8 and 32
bits (`ValueAssumption`), type references are finite terms (`Founded`), the two header
names the constructors use differ and the reply for a missing file is a reply.

Where the code loops over a list or recurses over a term, the model has a recursive
function. The library's induction theorems take the property as a parameter, which the
provers cannot instantiate; instead the numbers, lists or terms for which a fact holds
are collected in a set, and that set is shown to be all of them (`NatSetInduction`,
`SeqSetInduction`, `Minimal`). That the function exists, so that its equations may be
used, is the first lemma each time (`AfterExists`, `MapsExist`, `WalkExists`).

**HandleTableProofs.** First, every step of `Next` is of one of a few kinds
(`StepKinds`): the dropping calls, whatever their plans, only ever drop one resource
or cut a parent edge. `TableTypeOK` is inductive by itself. `FreeListExact`
is two halves, sound and complete: neither is inductive alone, as popping the head
needs that no other free slot points to it and pushing needs that no free slot is off
the list. `AncestorsAcyclic` is inductive over the types; `IsAncestor` is defined by
closed sets, so the proof exhibits a closed set where the code climbs. `Borrowing`
strengthens `BorrowsHold` with the finiteness of the leases, so that counts can be
compared with cardinalities. `RetiredStayRetired` and `ImplementsStore` need
`IssuedBehind` (a slot's generation is never below one handed out for it) and assume
`OverflowChecks`: where generations wrap, an old handle does become valid again.
`DescendantsFirst` holds through the plan of a recursive drop. `PlanOrdered`: what is
listed under a handle of the plan is free, or stands before it in the plan, or still
waits on the stack of the collecting loop, whose handles go to the front. When the loop
is over the stack is empty, so nothing live is listed under the first handle, the only
one a step frees; that step shortens lists (`PlanKidsWithin`, by `FilterWithin`) and
never fills one. No acyclicity is used: an index collected twice is in the plan twice.

**ComponentProofs.** Of CanonicalMemory, `RegionsDisjoint` with `Bounded` (every region ends at or
before the allocation pointer), under `OverflowChecks`; with wrapping arithmetic
the pointer may return to zero and the property fails. `HoldsWhatWasLowered` from
`HoldsInv`: at each region the memory has the bytes of the value recorded there, or of the
words that fit, and outside all regions it is clear. A write changes its own region only,
and the others lie elsewhere (`HoldsKept`). Two facts about the code's arithmetic carry the
rest: writing words one by one is writing all of them (`WordsWrittenIs`), and the four
bytes of a word are the word (`ToBytesIs`). The theorem is about lists whose size fits 32
bits; a longer list is written past the space it was given.
Of ComponentBinary, `SectionsFound`, for types of any depth and names, modules and lists
of any length a u32 counts. `BinaryInv` has three parts. What was added to the builder is
of its type, conversions of WIT references included (`WithItemsType`). The bytes kept are
laid out (`Layout`): each section starts where the one before it ends, with its id and its
size in LEB128, and the last ends with the bytes; this is `BuiltLayout`, from
`SectionsOrdered` (ids rise, each section at most once). The walk stands at the start of
the section after those it found (`Behind`), or, of bytes cut short, has misread one size
and left the bytes (`Astray`). What a turn of the walk reads is `LebReads` (bytes that
begin as the code of n does are read as n) and `LebCut` (of a code cut short, all bytes
are consumed). That encodings are bytes at all needs the layers of the types: the function
`EncodeValType` is built up layer by layer (`EncodesAll`).
`TypesDistinct` and `WorldReadable` rest on one notion. `Reads(x, t, y, u)`: whatever
follows, bytes that begin both as x, the code of t, and as y, the code of u, have t and u
the same. It passes from parts to a whole: through a byte, a LEB128 number, a name, an
option, two things in a row (`PairRead`) and a list, whose length comes first
(`EntriesRead`); then, layer by layer, to value types (`LegibleReadable`), to signatures
and to component types (`TypeRead`). A type's first byte tells its kind, but for one case:
the index of a `TypeRef` is written bare (component.rs:992), and 104 to 127 are opcodes. So
`TypesDistinctAlways` has a condition, that no type reference of the component has such an
index (`LowRef`); with one, two types could have the same bytes, and the theorem would be
false. `WorldReadableAlways` needs no condition, since every index `wit_type_to_component`
makes is 0 (`MadeLegible`). It adds two things: what a reference becomes is the same for
two references exactly when what is left of them is the same, again layer by layer
(`RefsSame`); and the import or export of an item stands at the item's place among those
of its direction and has the index of the item's own type (`GivenNext`), whatever was
added to the builder later (`WorldInv`).

**CompositionProofs.** Every step is one of the linker or one of the registry and the
checker (`StepKinds`). `OnlyRegisterUnsettles` needs the types only: what a component
exports and imports is kept by every step that does not register it (`InstancesKept`), a
step that makes no link leaves links and the list of unsatisfied imports to that
(`UnlinkedSettled`), and a new link takes from the list just the import it is for
(`LinkSettled`). `ResolutionMoves` follows from where `preferred`
may point, for every order of the hash map.
Of the workspace, `SearchInv` says that the frames form a path of the graph and
hold exactly the names on the stack, that a name that was entered and is off the
stack has only finished dependencies, and that the names before each loop's
position were visited. When the search ends, the finished names are closed under
dependency and the relation on them is well founded in the sense `ValidatedIsAcyclic`
states. `SortInv` adds `OrderIsTopological` and `Progress`: each finished round
placed a member if one was left. From these, `SortFindsAll`.

**SocketTableProofs.** To one half, a step of the other is a change of the shared
counters and nothing else (`CounterStep`), so each half's invariant is kept by both.
`UdpInv` is the types and `RegisteredAreOpen` together: the one needs the other when an
address is taken over. `TcpInv` adds `QueueInv` to `ListenersBound`: clients in queues,
by position, are distinct, were given out, and wait where they connected; a handle
that is still to be given out waits nowhere, which is why a new socket enters no queue
by its number. Most operations change a socket in place and leave queue, state and
address alone (`TcpChange`); finishing a connection, accepting, listening and closing
have lemmas of their own. `ListenersServe`, `RegisteredAreOpen` and `AcceptedOnce` follow,
also where the port counter wraps. `AcceptedOnce` needs one more step: who waits after a step
waited before or was connecting (`QueuedBefore`).

**StreamsProofs.** `Inv` ties each input's counter to the number of bytes whose origin it is,
and each output's to the lengths of its two buffers, with an empty buffer once closed:
`CountersAgree`. Streams that are changed in place need one lemma (`InPlace`); where bytes
arrive, a count of origins grows (`ArrivedCounts`). `ReadyStays` follows from what a step
may do to a source, an input and an output. `BytesKept` needs `BytesInv`: what a reader got
of an input, then what is in the buffer, rises, and what an output took of an input comes
before all that still waits there. The last part is what makes it inductive: from it a
splice puts its bytes behind their like, and they are nowhere else. `LostOnlyInClosed`
follows the set of placed bytes through each operation: only a splice takes from it, by
what it read of its input.

**HostObjectsProofs.** The lemmas on `Filter` come first: what it keeps, in what order,
and how it meets appending. `RoutesKept`: a new route has a greater index than the first
match, and the least index of a set does not change when greater ones join. `FilesKept`:
a directory that alone holds the file is the first match in every order of the hash map.
`ReadsKept`: what is added goes behind the first file of a path, and writing to a file keeps
every other's place. `ImplementsHeaderMap` maps the list of headers to the values of each
key, in order; each step on the list is one on the map. `ObjectsSound` has the types
and, for the client, that the history is the requests answered, in the order they came.

**FilesystemProofs.** `TreeInv` sharpens `NodesSound` to what is inductive: entries lead to
nodes other than the root and no two to the same one (`TreeOK`). Creating, binding,
unbinding and writing are each shown to keep it, to keep what is a file and what a
directory, and to give no name to a node that had none (`Keeps`); every call is a
sequence of such edits, `rename_at` one that unbinds first, so that the node it binds has no
name. In all calls but a rename a new name leads from a directory to a node that is newer
than it and was not there before (`Grows`; the two together are `Evolves`), so the nodes from
some number on are a closed set without the directory, and no loop is closed: that, and
that a rename adds one name (`OneMoved`), is `LoopsOnlyByRename`. `FailuresTakeLittle` goes
by the calls that fail: `create_directory_at` and `preload_file` change nothing then, since a
directory that was made is current, empty and never in the way (`Made`); `open_at` leaves a
node without a name (`PushTakesNone`), a rename takes the old one (`UnbindTakesOne`). A walk leads to an error or to a node that has a name (`WalkInTree`), hence a call
opens only nodes that could be reached: `UnlinkedStaysGone`. A write shortens no file and
leaves the cursor within it, so only a truncation cuts a file under a cursor:
`PastEndOnlyByTruncation`. `PreloadsOnlyAdd` follows the directories component by
component: all found, or the last ones new and empty, or stopped by a file (`Along`). The
assumption is only that the bounds leave room for a filesystem just made.

**WitProofs.** `FlagsAreNames`: each member's bit is the first position of its
name, and set and clear treat bit and name alike, by cases of a shift that fits, wraps
or panics. `ReferencesMove` from `ImportsDone`, that an import was brought in by a `use` item
that is done. `AliasesAgree` rests on what `map_type_ref` looks at: two states in which the
names a reference mentions stand for the same give it one type (`MapsDepend`), and an item
that touches none of them is such a step.
Of the parser, `BracketsMatch` is inductive once each body is known to open and close just
what its call owes (`Acts`, from the bodies of all parse functions): to replace a call by
its body, or to move a token from the calls to the source, leaves the open brackets as they
were (`BodyReplaces`, `AdvanceReplaces`). `NamesKept` is not inductive: whether a delivery may
replace names depends on how the parser got there. `ParserInv` says it for every depth of the
stack: a pending `set_package` or `set_constructor` is where its parse function put it, with
the keyword behind all names delivered before and in front of all names held now and no
semicolon between (`Since`, `Declaring`); the items of a resource belong to a resource that
is not closed, and the constructor delivered last is inside it (`InResource`). That type
references and parameters hold no semicolon, and the items of a resource no closing brace,
is again a fact about bodies (`QuietBodies`, `InnerBodies`). TLC checked `ParserInv` on
inputs of up to 17 tokens.

Proved and not run: `LenCountsLive` and `RetiredStayRetired` of HandleTable, and the
type invariants of HandleTable, Workspace and Composition; those of SocketTable
and Streams are parts of `ListenersServe` and `BytesKept`.

Only model-checked: `Returns`, which is liveness and so out of the prover's reach.

## Not modelled

* Name resolution, clocks and random: a map that is read, and values that nothing else
  decides on.
* The deployment tables: lists of constants, generated TOML, source and text.
* The scanning of characters in the lexer, and all formatting.
* PostReturnTracker and the 64-bit accessors of the canonical memory, the registry of
  methods of a ResourceDef, mounts, bindings, variables and captured output: stored and
  handed back, never asked.
* Operations that only read, where no property is about what they read.

## Plan

1. Done: HandleTable with ResourceStore; WasiFilesystem with VirtualFs; SocketTable;
   Streams; CanonicalMemory; Workspace; ComponentBinary; WitParser; Composition;
   HostObjects with HeaderMap; WitTypes; the proofs above.
2. Next, an abstract byte pipe that Streams implements, and a flat map from paths to
   files that WasiFilesystem implements while names are not moved.
