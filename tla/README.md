# TLA+ models of libbpf-cargo's BTF decoder, layout resolver, declaration generator and build driver, and of libbpf-rs's Btf handle

This directory holds TLA+ models of the BTF (BPF Type Format) handling in this
repository, the TLC configurations that check them, and this description.
`PROJECT.json` lists, for each definition, the source lines it models
(`map`). It also lists the runs, the mutants that show each checked property
can fail, the findings and the hazards.

## 1. The system

The core is `src/libbpf-cargo/src/btf/btf.rs`. It has four parts, and each
one feeds the next:

| Part | Code | State | Operations |
|---|---|---|---|
| Binary decoder | `BtfLoader`, `Btf::new` (btf.rs 21-495) | the read offset into the type section, the types decoded so far, `anon_count` | validate the header; scan one record at a time; synthesize anonymous names |
| Type graph | `Btf { types, ptr_size, .. }`, `type_by_id`, `types` | an immutable vector of `BtfType`, indexed by type id (id 0 is Void) | lookups |
| Layout resolver | `size_of`, `align_of`, `is_struct_packed`, `required_padding`, `skip_mods_and_typedefs` | none (pure queries) | recursive descent over the graph |
| Declaration generator | `type_declaration`, `type_default`, `type_definition` | inside `type_definition`: the worklist `dependent_types`, the set `processed`, the output `def`, and per aggregate `offset`, `agg_content`, `impl_default`, `gen_impl_default` | print the Rust definitions of a struct, union, enum or datasec and of every type they depend on |

Two more parts sit beside the core:

- **libbpf-rs** (`src/libbpf-rs/src/btf/mod.rs`). A `Btf` handle over libbpf's
  own parsed BTF. It has:
  - constructors: `from_path`, `from_prog_id`, `from_raw`;
  - a `DropPolicy` that says what `Drop` frees;
  - lookups: `type_by_name`, `type_by_id`, `type_by_kind`;
  - `BtfType` views with `skip_mods_and_typedefs` and `alignment`.
- **The build driver** (`src/libbpf-cargo/src/build.rs`). `build_project`
  takes the programs `metadata::get` lists and rejects two that would share
  an object file (`check_progs`). It then builds them one at a time and stops
  at the first error. Building one program (`build_many`) takes these steps,
  and any of them can fail:
  1. create the out directory;
  2. create a temporary directory;
  3. create a libbpf `Linker` on the destination `out/<stem>.o`;
  4. extract the libbpf headers;
  5. run clang;
  6. add its output to the linker;
  7. link.

How the parts interact:
1. A collaborator hands `Btf::new` the bytes of an object file.
2. The decoder builds the graph once.
3. The skeleton generator calls `type_definition` for each map and datasec
   type.
4. `type_definition` calls the layout and declaration queries on each
   member.

### What makes each part correct

- **Decoder.**
  - It never panics on untrusted bytes.
  - A failure produces no graph.
  - Anonymous names are unique and increase in encounter order.
  - Header arithmetic does not wrap.
- **Layout resolver.**
  - Every query terminates on any table, including a malformed one.
  - Packedness is inferred correctly from offsets.
  - The padding it asks for gives the BTF layout.
- **Declaration generator.**
  - It terminates on cyclic graphs (pointers back to the requested type, self
    pointers).
  - It prints every type a field names, each exactly once.
  - The printed `#[repr(C)]` and `#[repr(C, packed)]` definitions have the
    offsets and sizes BTF gives.
  - What it prints compiles: `#[derive(Default)]` only when every field type
    has a `Default`, and an `impl Default` that initialises the fields the
    struct declares.
  - It never panics.

## 2. Modules

| Module | Models | How it corresponds to the code |
|---|---|---|
| `BtfTypes` | the type graph, the layout resolver, `type_declaration`, `type_default` | See below. |
| `TypeDefinition` | `Btf::type_definition` | See below. |
| `MCTypeDefinition` | the type tables to check | Builds tables the way a C compiler and pahole would for x86-64 (see section 3). |
| `BtfLoader` | `Btf::new` and `BtfLoader` (the decoder) | See below. |
| `MCBtfLoader` | the buffers to decode | Type sections of a few records from a palette of kinds, whole or cut short, under a few header shapes. |
| `DefinitionWorklist` | what `type_definition` promises about the order it prints in | An abstract machine, refined by `TypeDefinition`. See below. |
| `BtfHandle` | libbpf-rs `Btf`: its constructors, `DropPolicy`, `Drop`, and `BtfType::alignment` | See below. |
| `BuildDriver` | `build_project`, `check_progs` and `build_many` | See below. |
| `MCBuildDriver` | the programs to build | Two package directories, two stems and two out directories, as model values. |
| `MCBtfHandle` | two type tables for the handles | A table of every class of type (a 128-bit int, a struct with a pointer, a dangling typedef) and one with a self typedef. |

**BtfTypes.** The constant `PtrSize` is `Btf.ptr_size`. The generator's
u32 sums and products are modelled by `U32Result`. These are the array size
(btf.rs 517), a member's end (911) and a var's end (1124). `U32Result` takes
two constants:
- `U32` is the modulus: 2^30 in the natural runs, above every value they
  reach, and 1024 in `generator_panic`, a scaled u32;
- `Build` is debug, where a sum past `U32` panics (`crash`), or release,
  where it wraps.

A type table `g` maps ids to one record shape, `Ty(kind)`. Every query is an operator that returns
`[st, v]`, where `st` is one of:
- `ok`: a value;
- `err`: an `Err`;
- `hang`: a loop revisited an id;
- `crash`: a panic, or a recursion that revisited an id on its stack.

The code behind some of these outcomes:
- `SkipFrom` is the loop of `skip_mods_and_typedefs`.
- `NextTypeFrom` is the `next_type` closure of `type_definition`.
- `SizeOfIn` and `AlignOfIn` (with `MembersAlign`) are `size_of` and
  `align_of`.
- `IsStructPacked` (with `MembersMisaligned`) is `is_struct_packed`.
- `RequiredPadding` is `required_padding`.

Declarations and defaults are Rust type terms rather than strings:
`<<"ptr", d>>`, `<<"arr", d, n>>`, `<<"named", id>>`, and so on.

**TypeDefinition.** The variables are:
- `queue` = `dependent_types`;
- `processed`;
- `defs` = the definitions appended to `def`;
- `cur` = the locals of the struct, union or datasec arm being printed;
- `status`.

The actions are:

| Action | Code |
|---|---|
| `Begin` | the `is_terminal` check and the seeded worklist |
| `SkipProcessed` | `remove(0)` of a processed id |
| `StartAggregate` | `remove(0)`, `processed.insert`, `is_struct_packed` |
| `MemberStep` (`StructMember`) | one iteration of the member loop |
| `EndDefinition` (`AggregateEnd`) | trailing padding, derive, and the Default impl |
| `ProcessEnum` | the Enum and Enum64 arms |
| `StartDatasec` and `VarStep` (`DatasecVar`) | the Datasec arm |
| `Finish` | `Ok(def)` |

Inside each step, the order of the code's early returns is kept. An `Err`,
`hang` or `crash` ends the call: `status` records it, and no further step is
enabled.

The section "Reference definitions" of `TypeDefinition` holds what the
properties compare against. These definitions are not code:
- `RustAlign`, `RustSize` and `Placement` are how rustc lays out a
  `#[repr(C)]` or `#[repr(C, packed)]` struct;
- `HasDefault` says which Rust types implement `Default`;
- `NamedIn` gives the aggregates a type term names.

**BtfLoader.** A record of the type section is abstracted to the fields the
decoder reads: the kind tag, `vlen`, the names of the record and of its
members, the id it refers to, and whether its encoding or linkage word is
valid. A name is a plain string, or one of three faulty string-table entries:
- `#oob`: past the table, so indexing it panics;
- `#utf8`: `to_str` fails;
- `#unterm`: no final NUL, which is undefined behaviour. The result is garbage,
  an `Err` or a fault.

The variables are:
- `stage`;
- `off` and `types`, the locals of `load_now`;
- `anon_count`;
- the constant `input` and `build`. `build` is debug, where u32 overflow
  panics, or release, where it wraps.

The actions are:

| Action | Code |
|---|---|
| `New` (`NewOutcome`, `Sum32`) | `Btf::new`: libbpf's open, summarised by its outcome; the magic and version checks; the u32 section sums; the bounds checks |
| `LoadType` (`LoadAt`, `LoadOps`, `RunOps`) | one iteration of `load_now`: `load_type`'s reads in the code's order, then `off += type_size`, then `push` |
| `Loaded` | the loop ends and `Btf::new` returns `Ok(Some(btf))` |

Header words are counted in 4-bit units (`Width`), so that overflow stays
within TLC's integers. Record sizes are in bytes.

The inputs are restricted to what libbpf can hand back (`LibbpfAccepts`,
stated as an `ASSUME`). `btf__raw_data` returns the data of a BTF that
libbpf's `btf_parse_hdr` already accepted: enough bytes for the header, the
right magic, and sections that fit the data. So the overflow and
out-of-bounds branches of `Btf::new` are modelled but never taken. A bad
version is still possible, because libbpf does not check it.

**DefinitionWorklist.** The abstract machine has the type table, the
request, the sequence `printed` of the ids printed so far and `status`.
- `Start`: the call begins, or fails the terminal check.
- `Emit`: prints a type not printed yet. The first is the request; each
  later one is a type `Leads` gives for an already printed definition
  (`next_type` of a member's stripped type, or of a non-static var's type).
- `Return`: `Ok` once every type the printed ones lead to is printed.
- `Fail`: `Err`, a hang or a panic, at any point.

`TypeDefinition` maps `printed` to the ids of `def` in order
(`Worklist == INSTANCE DefinitionWorklist WITH printed <- ...`). The queue,
the processed set and the member loop are hidden, so a step that only moves
them is a stuttering step. `WorklistRefined` (`Worklist!Spec`, with its weak
fairness) is a property of the `typedef_natural` run.

**BtfHandle.** It models the ownership protocol of libbpf-rs's `Btf` over
small pools of bpf_objects (`Objs`), libbpf btfs (`Btfs`) and handle slots
(`Handles`). The variables are:
- `objState` and `objBtf`: each bpf_object is none, open or closed, and the
  btf inside it, if any;
- `btfState` and `btfTable`: each btf is none, live or freed, and its types;
- `userObjs`: the bpf_objects the caller's `Object`s own;
- `handles`: each live `Btf`, with its pointer, its `DropPolicy` and its
  object;
- `closes` and `frees`: how often libbpf closed or freed each one;
- `last`: the last alignment query and its result.

| Action | Code |
|---|---|
| `FromPath` | `from_path` and `from_prog_id`: a new btf owned with `SelfPtrOnly` |
| `FromBpfObject` (`FromBpfObjectRaw`, `BorrowPolicy`) | `from_bpf_object`: borrows the btf of a caller's object with `Nothing`; `None` is an `Err` |
| `FromRaw` | `from_raw`: opens a new object, and makes an `ObjPtr` handle only when the object has a btf |
| `Drop` (`FreeBtf`, `DropObjPtr`, `CloseObj`) | `impl Drop`: nothing, `btf__free`, or `bpf_object__close`, which frees the btf too |
| `OpenObject`, `CloseObject` | the caller's `Object` (outside this file); the borrow checker keeps an object while a handle borrows it |
| `Query` (`RsAlignment`, `RsSkip` with `RsIsMod`, `RsIntAlign`) | `type_by_kind` or `type_by_id` on a live handle, then `BtfType::alignment` |

In `RsSkip`, a typedef cycle is a hang and a dangling reference is the
`unwrap` panic. In `RsAlignIn`, a by-value cycle is a stack overflow.
Failed constructors return `Err` and change nothing, so they are not
actions.

**BuildDriver.** An entry of `to_compile` is a record of the source's
package directory, its stem and its out directory. Its destination `Dest` is
`<<out, stem>>`. The variables are:
- `to_compile`;
- `stage`;
- `i`, the entry the loop is at;
- `files`, what each object file holds: nothing, an old object, a truncated
  file, or the object of a given source;
- `before`, the files before the call.

| Action | Code |
|---|---|
| `Start` (`CheckProgs`) | `metadata::get` failing, the empty list, `check_progs` |
| `BuildObj` (`DestAfter`, `Steps`) | one iteration of `try_for_each`: `create_dir_all` and `build_many`, with the step that fails, if any, in the code's order |
| `Finish` | `Ok(())` |

libbpf's `bpf_linker__new` opens the destination with `O_TRUNC`. So a
failure from `Linker::new` on leaves the destination truncated. A failure
inside `Linker::new` may come before or after its open.

## 3. Runs

All runs use `PtrSize = 8` and `MaxMembers = 2`. Tables are built id by id.
Each new type may contain only lower ids by value. A pointer may point at any
lower id, or at the requested type (the highest id), so pointer cycles through
the requested type are always present. Structs, unions and datasecs get their C
offsets and sizes; a packed struct gives its members alignment 1. `Shape`
limits the classes of type at each id.

The flags choose the harder palettes:
- `EmptyUnions`: a union may have no members.
- `AlignedMembers`: the last member may carry `aligned(4)`.
- `AnonMembers`: an aggregate-typed member may be anonymous.
- `SelfCycles`: a pointer or typedef may refer to itself.

| Run | cfg | Expect | Checks | What it shows |
|---|---|---|---|---|
| `typedef_natural` | `MCTypeDefinition.cfg` (every class at 2 ids, anonymous members, plus the nested tables of a char or int at each of two ids and an aggregate of them; about 50k states, under 2 minutes) | pass | `TypeOK`, `DefinitionsClosed`, `LayoutMatchesBtf`, `Terminates`, `WorklistRefined` | On natural C, the generator returns. It prints exactly the needed types, once each, with the BTF layout, in an order `DefinitionWorklist` allows. |
| `layout_aligned` | `MCLayoutAligned.cfg` | violation | `LayoutMatchesBtf` | An `aligned(4)` member of packed struct type: the Rust struct is 5 bytes where BTF says 8. |
| `default_impls` | `MCDefaults.cfg` | violation | `DefaultCompiles` (`DerivedDefaultSound` and `ImplDefaultMatchesFields`) | The printed Default does not compile. `#[derive(Default)]` is printed on a struct with a raw pointer field, and an anonymous member's initialiser is named `""` while its field is named by its type. Each conjunct fails on its own. |
| `self_cycles` | `MCCycles.cfg` | violation | `Terminates` | A typedef or pointer to itself loops for ever. |
| `generator_panic` | `MCPanics.cfg` (1 id below the root, unions may be empty, plus four malformed tables; u32 scaled to 1024, debug build) | violation | `NoPanic` | Panics instead of `Err`. `impl_default[0]` panics on a union without members. An array size or a member or var end past u32 overflows. A 16-bit Bool fails the assertion. |
| `decoder_scan` | `MCBtfLoader.cfg` (up to 2 records from 13 kind tags, among them Array, Struct, Union, Enum, DeclTag, Void and an unknown tag, 0 or 2 elements, whole or truncated sections, a good header or a bad version; about 82k states) | pass | `TypeOK`, `DecodedMatchesRecords`, `AnonNamesInOrder`, `Terminates` | The scan stays on record boundaries and decodes each record once. The k-th anonymous aggregate is `__anon_k`. The call returns. |
| `decoder_no_panic` | `MCLoaderPanic.cfg` | violation | `NoPanic` | A name offset past the string table panics in `get_btf_str` in any build, on a buffer libbpf accepted. |
| `decoder_refs` | `MCLoaderRefs.cfg` | violation | `RefsResolve` | A `Ptr` to an id beyond the table decodes without error. The spec says such ids are rejected at decode time. |
| `anon_collision` | `MCLoaderAnon.cfg` (up to 2 structs or enums, anonymous, named `s` or named `__anon_1`) | violation | `AnonNamesUnique` | An anonymous struct is named `__anon_1` beside a type really named `__anon_1`. The spec says synthesized names are unique within a decode pass. |
| `handle_lifecycle` | `MCBtfHandle.cfg` (2 objects, 3 btfs, 2 handles, 2 tables; about 119k states) | pass | `TypeOK`, `NoUseAfterFree`, `FreedOnce`, `AlignmentAgrees` | In any interleaving of constructors, drops, the caller's objects and queries, no live handle points at a freed btf, and nothing is closed or freed twice. libbpf-rs `alignment` returns Ok only with the value libbpf-cargo's `align_of` gives. |
| `handle_leak` | `MCHandleLeak.cfg` | violation | `NoLeak` | `from_raw` on an object file without BTF returns `Ok(None)` and never closes the bpf_object it opened. |
| `build_driver` | `MCBuildDriver.cfg` (up to 3 programs from 2 dirs, 2 stems and 2 out dirs, every step able to fail; about 55k states) | pass | `BuiltObjectsDistinct`, `FailureDamagesOnlyItsObject` | After `Ok`, every program's object file holds its own object. After `Err`, the programs before the failing one have their new objects, the rest keep their old ones, and only the failing program's destination may be truncated. |

**Why these bounds are enough.** Two members and two ids below the root
already give every interaction:
- structs that contain structs;
- padding before a member and at the end;
- packed structs;
- pointers back to the root and to already printed types;
- arrays over and under 32 elements;
- typedef chains;
- datasecs with static and global vars.

For the decoder, two records are enough. They show:
- a record placed after one of every other length;
- two anonymous aggregates of different kinds;
- truncation in the middle of a trailing array.

Three ids are used only where a layout needs two scalar types and an inner
aggregate. There the scalars are a char and an int (`NestedShape`): two
alignments give padding inside the inner aggregate. 8-byte alignment is
already covered by the 2-id tables. A broader 3-id palette is far beyond five minutes.

For the build driver, two programs can share a stem across packages, in
one out directory or in two. Any of three programs can fail at any step,
the third after two were built.

The malformed generator tables are scaled to the 10-bit u32 of
`generator_panic`: an array of 600 elements of 2 bytes; a member ending at
byte 1032 of a 1020-byte struct; a var at offset 900 of size 200. Natural
tables stay well below 1024 there, so only the malformed ones overflow.

For the handles, two slots and two objects let a borrowed handle and an
owning one coexist, and let `from_raw` and the caller both open objects.
Three btfs let every object hold one while `from_path` makes another. The
two tables hold every arm of `alignment`: a capped 128-bit int, a pointer,
an array, a var, a struct, an enum, a datasec, a dangling typedef and a
typedef cycle.

**Fairness.** `Btf::new`, `type_definition` and `build_project` are each one synchronous call on one thread, and
nothing in it waits. It keeps stepping until it returns, hence
`WF_vars(Next)`. A call that has returned has no step, so the configurations
say `CHECK_DEADLOCK FALSE`. `BtfHandle` has no fairness: its steps are calls
a caller may or may not make. Its pools are bounded, so it too runs
with `CHECK_DEADLOCK FALSE`.

**Mutants.** `PROJECT.json` gives each property of a passing run a plausible
bug under which TLC finds that property violated:

| Mutant | Property it breaks |
|---|---|
| pushing `None` on the worklist (`PushedAlways`) | `TypeOK` |
| `next_type` that stops at arrays (`NextTypeNoArray`) | `DefinitionsClosed` |
| `is_struct_packed` without the size test (`IsStructPackedByMembers`) | `LayoutMatchesBtf` |
| `align_of` of a pointer taken from its pointee (`PointeeAlign`) | `Terminates` |
| `load_type` that returns Void instead of bailing (`LoadableWithVoid`) | `TypeOK` (decoder) |
| the anonymous name formatted before the increment (`SynthNameBeforeIncrement`) | `AnonNamesInOrder` |
| `type_size` counting Enum64 values as 8 bytes (`TypeSizeEnum64Short`) | `DecodedMatchesRecords` |
| `type_size` without the common header (`TypeSizeNoCommon`) | `Terminates` (decoder) |
| the worklist not seeded with the requested id (`BeginUnseeded`) | `WorklistRefined` |
| `from_bpf_object_raw` without the null check (`FromBpfObjectRawUnchecked`) | `TypeOK` (handle) |
| `from_bpf_object_raw` giving an owning policy (`OwningPolicy`) | `NoUseAfterFree` |
| `Drop` of `ObjPtr` also freeing the btf (`DropObjPtrAndBtf`) | `FreedOnce` |
| the Int arm of `alignment` without the `ptr_size` cap (`RsIntAlignUncapped`) | `AlignmentAgrees` |
| `check_progs` keyed on the source path (`CheckProgsBySource`) | `BuiltObjectsDistinct` |
| the result of `linker.link()` ignored (`BuildObjIgnoringLink`) | `FailureDamagesOnlyItsObject` |

## 4. Plan and what is not modelled yet

Done:
- the decoder and the generator, with the generator's u32 arithmetic and
  the Bool assertion;
- the abstract worklist and its refinement;
- the libbpf-rs handle and its `alignment` query;
- the build driver's control flow and failure points.

Next, in order:
1. **Decoder**: the release-build wrap of the section sums, and the bytes
   such a section then covers.
2. **Build driver**: the compiler arguments, as a pure operator. These are
   the `-D__TARGET_ARCH_` define added unless some argument contains
   `__TARGET_ARCH_`, and the header include. Whether clang then succeeds is
   outside the model, so a property about them needs a run of its own
   (a user argument such as `-U__TARGET_ARCH_x86` suppresses the define).

Not modelled:
- the examples and the kernel integration tests: programs that use the
  library and add no logic of it;
- in `build.rs`: the clang command line, the logging of clang's output and
  the header extraction's file writes. These are I/O; the model keeps only
  whether each step fails;
- `lib.rs` of libbpf-rs: module declarations and re-exports only;
- the other `BtfType` views of libbpf-rs (`name`, `type_by_name`,
  `is_core_compat`, the typed wrappers): lookups without state. Their
  `CString::new(..).unwrap()` panics depend only on a NUL byte in one
  argument;
- the text itself (names, formatting), beyond the structure the properties
  need.
