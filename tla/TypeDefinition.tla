--------------------------- MODULE TypeDefinition ---------------------------
(***************************************************************************)
(* The declaration generator of libbpf-cargo: Btf::type_definition         *)
(* (src/libbpf-cargo/src/btf/btf.rs) prints the Rust definition of a       *)
(* struct, union, enum or datasec and of every definable type it depends   *)
(* on.  It keeps a FIFO worklist dependent_types seeded with the requested *)
(* id and a set processed; each iteration pops an id, skips it when it was *)
(* processed, and otherwise prints its definition, pushing the types its   *)
(* fields lead to onto the worklist as it goes.                            *)
(*                                                                         *)
(* A step of this module is one iteration of the worklist loop, or of the  *)
(* member loop of a struct, union or datasec.  The text is abstracted to   *)
(* its structure: a definition records its fields (name, type id, Rust     *)
(* type term, BTF offset), whether it is repr(C, packed), how its Default  *)
(* is provided and the initialisers of an impl Default.                    *)
(***************************************************************************)
EXTENDS BtfTypes, FiniteSetsExt

CONSTANT Inputs     \* set of [g |-> type table, id |-> requested type id]

VARIABLES
  g,          \* the type table (Btf.types), never changed
  request,    \* the type_id argument of type_definition
  queue,      \* dependent_types
  processed,  \* processed
  cur,        \* the aggregate or datasec whose members are being printed
  defs,       \* the definitions printed so far, in order (def)
  status      \* "start", "running", or how the call ended

vars == <<g, request, queue, processed, cur, defs, status>>

(***************************************************************************)
(* Printed definitions.  A field records the member or var it prints (mem, *)
(* 0 for padding).  A field name is <<"m", member name>>, or the Rust      *)
(* type <<"t", decl>> of an anonymous member, or <<"pad", offset>> for a   *)
(* __pad_ field; defaultBy is "derive" for #[derive(Default)], "impl" for  *)
(* an impl Default block and "none".                                       *)
(***************************************************************************)
PadDecl(n) == <<"arr", <<"u", 1>>, n>>

PadField(at, n) == [name |-> <<"pad", at>>, ty |-> NoType, decl |-> PadDecl(n),
                    mem |-> 0]

PadInit(at, n) == [name |-> <<"pad", at>>,
                   expr |-> <<"repeat", <<"default", <<"u", 1>>>>, n>>]

Def(id, agg, repr, packed, fields, init, defaultBy) ==
  [id |-> id, agg |-> agg, repr |-> repr, packed |-> packed, fields |-> fields,
   init |-> init, defaultBy |-> defaultBy]

(***************************************************************************)
(* The locals of the Struct | Union and Datasec arms: the next member i,    *)
(* offset, gen_impl_default, agg_content (fields) and impl_default (init). *)
(***************************************************************************)
Cur(id, packed) ==
  [id |-> id, packed |-> packed, i |-> 1, off |-> 0, gen |-> FALSE,
   fields |-> <<>>, init |-> <<>>]

Idle == Cur(NoType, FALSE)

\* The outcome of one member: failed with r's status, or the new locals and
\* the ids pushed onto dependent_types.
Fail(r) == [st |-> r.st]
Next1(c, deps) == [st |-> "ok", cur |-> c, deps |-> deps]
\* (PushedAlways is the variant that pushes a None too.)
PushedAlways(nxt) == <<nxt.v>>
Pushed(nxt) == IF nxt.v # NoType THEN <<nxt.v>> ELSE <<>>

\* The byte offset of a member.
MemberOffset(m) == m.bitOff \div 8

(***************************************************************************)
(* One iteration of the member loop of a struct or union: reject a         *)
(* bitfield, strip modifiers, push the definable type the member leads to, *)
(* put padding before it and note an array longer than 32 (structs only),  *)
(* collect its Default initialiser, move the offset to its end and print   *)
(* the field, each step returning early on error.                          *)
(***************************************************************************)
StructMember(g0, t, c, m) ==
  LET fty  == SkipModsAndTypedefs(g0, m.type)
      nxt  == NextType(g0, fty.v)
      req  == MemberOffset(m)
      pad  == IF t.kind = "Struct"
              THEN RequiredPadding(g0, c.off, req, m.type, c.packed) ELSE Ok(0)
      gen  == \/ c.gen
              \/ /\ t.kind = "Struct"
                 /\ g0[fty.v].kind = "Array" /\ g0[fty.v].nelems > 32
      dflt == TypeDefault(g0, fty.v)
      sz   == SizeOf(g0, fty.v)
      end  == U32Result(req + sz.v)
      decl == TypeDeclaration(g0, fty.v)
      name == IF m.name # "" THEN <<"m", m.name>> ELSE <<"t", decl.v>>
      padF == IF pad.v # 0 THEN <<PadField(c.off, pad.v)>> ELSE <<>>
      padI == IF pad.v # 0 THEN <<PadInit(c.off, pad.v)>> ELSE <<>>
      memI == IF dflt.st = "ok"
              THEN <<[name |-> <<"m", m.name>>, expr |-> dflt.v]>> ELSE <<>>
  IN  IF m.bitSize # 0 \/ m.bitOff % 8 # 0 THEN Fail(Err)
      ELSE IF fty.st # "ok" THEN Fail(fty)
      ELSE IF nxt.st # "ok" THEN Fail(nxt)
      ELSE IF pad.st # "ok" THEN Fail(pad)
      ELSE IF dflt.st \in {"hang", "crash"} THEN Fail(dflt)
      ELSE IF dflt.st = "err" /\ (gen \/ t.kind = "Union") THEN Fail(Err)
      ELSE IF sz.st # "ok" THEN Fail(sz)
      ELSE IF end.st # "ok" THEN Fail(end)
      ELSE IF decl.st # "ok" THEN Fail(decl)
      ELSE Next1([c EXCEPT !.i = @ + 1, !.off = end.v, !.gen = gen,
                  !.fields = @ \o padF \o
                    <<[name |-> name, ty |-> fty.v, decl |-> decl.v, mem |-> c.i]>>,
                  !.init = @ \o padI \o memI],
                 Pushed(nxt))

(***************************************************************************)
(* The end of the Struct | Union arm: trailing padding up to the struct's  *)
(* size, the derive line and the Default impl; a union's Default takes     *)
(* impl_default[0], which panics when the union has no member.             *)
(***************************************************************************)
AggregateEnd(g0, c) ==
  LET t      == g0[c.id]
      trail  == IF t.kind = "Struct"
                THEN RequiredPadding(g0, c.off, t.size, c.id, c.packed) ELSE Ok(0)
      fields == c.fields \o
                  (IF trail.v # 0 THEN <<PadField(c.off, trail.v)>> ELSE <<>>)
      init   == c.init \o
                  (IF trail.v # 0 THEN <<PadInit(c.off, trail.v)>> ELSE <<>>)
      agg    == IF t.kind = "Struct" THEN "struct" ELSE "union"
      dfltBy == IF t.kind = "Struct" /\ ~c.gen THEN "derive" ELSE "impl"
      used   == IF t.kind = "Union" THEN SubSeq(init, 1, 1) ELSE init
  IN  IF trail.st # "ok" THEN Fail(trail)
      ELSE IF t.kind = "Union" /\ init = <<>> THEN Fail(Crash)
      ELSE [st |-> "ok",
            def |-> Def(c.id, agg, <<"C">>, c.packed, fields,
                        IF dfltBy = "impl" THEN used ELSE <<>>, dfltBy)]

(***************************************************************************)
(* The Enum and Enum64 arms: the repr width comes from the size, an Enum   *)
(* is signed when a value is negative, an Enum64 when its flag says so;    *)
(* impl Default picks the first value and is left out without values.      *)
(***************************************************************************)
EnumDefinition(g0, id) ==
  LET t == g0[id]
      widths == IF t.kind = "Enum" THEN {1, 2, 4, 8, 16} ELSE {1, 2, 4, 8}
      signed == IF t.kind = "Enum" THEN \E i \in 1..Len(t.mems) : t.mems[i].value < 0
                ELSE t.flag
  IN  IF t.size \notin widths THEN Fail(Err)
      ELSE [st |-> "ok",
            def |-> Def(id, "enum", <<IF signed THEN "i" ELSE "u", t.size>>,
                        FALSE, <<>>, <<>>,
                        IF t.mems = <<>> THEN "none" ELSE "impl")]

(***************************************************************************)
(* One iteration of the var loop of the Datasec arm: the var must be a     *)
(* Var, a static one is skipped, otherwise its definable type is pushed,   *)
(* padding (never packed) goes before it, and the offset moves to the end  *)
(* of its slot in the section.                                             *)
(***************************************************************************)
DatasecVar(g0, c, v) ==
  LET var  == g0[v.type]
      nxt  == NextType(g0, var.ref)
      pad  == RequiredPadding(g0, c.off, v.offset, var.ref, FALSE)
      end  == U32Result(v.offset + v.size)
      decl == TypeDeclaration(g0, var.ref)
      padF == IF pad.v # 0 THEN <<PadField(c.off, pad.v)>> ELSE <<>>
  IN  IF ~ValidId(g0, v.type) \/ var.kind # "Var" THEN Fail(Err)
      ELSE IF var.flag THEN Next1([c EXCEPT !.i = @ + 1], <<>>)
      ELSE IF nxt.st # "ok" THEN Fail(nxt)
      ELSE IF pad.st # "ok" THEN Fail(pad)
      ELSE IF end.st # "ok" THEN Fail(end)
      ELSE IF decl.st # "ok" THEN Fail(decl)
      ELSE Next1([c EXCEPT !.i = @ + 1, !.off = end.v,
                  !.fields = @ \o padF \o
                    <<[name |-> <<"m", var.name>>, ty |-> var.ref,
                       decl |-> decl.v, mem |-> c.i]>>],
                 Pushed(nxt))

-----------------------------------------------------------------------------
(***************************************************************************)
(* The loops of type_definition.                                           *)
(***************************************************************************)
Init ==
  /\ \E in \in Inputs : g = in.g /\ request = in.id
  /\ queue = <<>>
  /\ processed = {}
  /\ cur = Idle
  /\ defs = <<>>
  /\ status = "start"

\* (BeginUnseeded starts with an empty worklist.)
BeginUnseeded ==
  /\ status = "start"
  /\ IF ValidId(g, request) /\ g[request].kind \in DefinableKinds
     THEN status' = "running" /\ queue' = <<>>
     ELSE status' = "err" /\ UNCHANGED queue
  /\ UNCHANGED <<g, request, processed, cur, defs>>

\* The is_terminal check on the requested id, then the worklist seeded with it.
Begin ==
  /\ status = "start"
  /\ IF ValidId(g, request) /\ g[request].kind \in DefinableKinds
     THEN status' = "running" /\ queue' = <<request>>
     ELSE status' = "err" /\ UNCHANGED queue
  /\ UNCHANGED <<g, request, processed, cur, defs>>

\* dependent_types.remove(0) of an id already in processed: continue.
SkipProcessed ==
  /\ status = "running"
  /\ cur = Idle
  /\ queue # <<>>
  /\ Head(queue) \in processed
  /\ queue' = Tail(queue)
  /\ UNCHANGED <<g, request, processed, cur, defs, status>>

\* dependent_types.remove(0) of an unprocessed id of one of kinds, which is
\* inserted into processed before its arm runs.
Take(kinds) ==
  /\ status = "running"
  /\ cur = Idle
  /\ queue # <<>>
  /\ Head(queue) \notin processed
  /\ g[Head(queue)].kind \in kinds
  /\ queue' = Tail(queue)
  /\ processed' = processed \cup {Head(queue)}

\* A result r of a step: an error, hang or crash ends the call.
Failed(r) == status' = r.st

\* The Struct | Union arm begins with is_struct_packed.
StartAggregate ==
  /\ Take({"Struct", "Union"})
  /\ \E p \in {IsStructPacked(g, Head(queue))} :
       IF p.st = "ok" THEN cur' = Cur(Head(queue), p.v) /\ UNCHANGED status
       ELSE Failed(p) /\ UNCHANGED cur
  /\ UNCHANGED <<g, request, defs>>

\* The Datasec arm begins with the check of the section name.
StartDatasec ==
  /\ Take({"Datasec"})
  /\ IF g[Head(queue)].name.dot
     THEN cur' = Cur(Head(queue), FALSE) /\ UNCHANGED status
     ELSE Failed(Err) /\ UNCHANGED cur
  /\ UNCHANGED <<g, request, defs>>

\* The Enum and Enum64 arms print the whole definition at once.
ProcessEnum ==
  /\ Take({"Enum", "Enum64"})
  /\ \E r \in {EnumDefinition(g, Head(queue))} :
       IF r.st = "ok" THEN defs' = Append(defs, r.def) /\ UNCHANGED status
       ELSE Failed(r) /\ UNCHANGED defs
  /\ UNCHANGED <<g, request, cur>>

\* The member loop of the aggregate or datasec cur has a member left.
InMemberLoop(kinds) ==
  /\ status = "running"
  /\ cur # Idle
  /\ g[cur.id].kind \in kinds
  /\ cur.i <= Len(g[cur.id].mems)

\* The result r of one member: the new locals and the pushed ids, or the end.
MemberDone(r) ==
  /\ IF r.st = "ok"
     THEN cur' = r.cur /\ queue' = queue \o r.deps /\ UNCHANGED status
     ELSE Failed(r) /\ UNCHANGED <<cur, queue>>
  /\ UNCHANGED <<g, request, processed, defs>>

MemberStep ==
  /\ InMemberLoop({"Struct", "Union"})
  /\ \E r \in {StructMember(g, g[cur.id], cur, g[cur.id].mems[cur.i])} :
       MemberDone(r)

VarStep ==
  /\ InMemberLoop({"Datasec"})
  /\ \E r \in {DatasecVar(g, cur, g[cur.id].mems[cur.i])} : MemberDone(r)

\* After the last member: the definition is appended to def.
EndDefinition ==
  /\ status = "running"
  /\ cur # Idle
  /\ cur.i > Len(g[cur.id].mems)
  /\ \E r \in {IF g[cur.id].kind = "Datasec"
               THEN [st |-> "ok", def |-> Def(cur.id, "datasec", <<"C">>, FALSE,
                                             cur.fields, <<>>, "none")]
               ELSE AggregateEnd(g, cur)} :
       IF r.st = "ok"
       THEN defs' = Append(defs, r.def) /\ cur' = Idle /\ UNCHANGED status
       ELSE Failed(r) /\ UNCHANGED <<cur, defs>>
  /\ UNCHANGED <<g, request, queue, processed>>

\* The worklist is empty: type_definition returns Ok(def).
Finish ==
  /\ status = "running"
  /\ cur = Idle
  /\ queue = <<>>
  /\ status' = "done"
  /\ UNCHANGED <<g, request, queue, processed, cur, defs>>

Next ==
  \/ Begin
  \/ SkipProcessed
  \/ StartAggregate
  \/ StartDatasec
  \/ ProcessEnum
  \/ MemberStep
  \/ VarStep
  \/ EndDefinition
  \/ Finish

\* The call runs on one thread that keeps executing until it returns.
Spec == Init /\ [][Next]_vars /\ WF_vars(Next)

-----------------------------------------------------------------------------
(***************************************************************************)
(* Reference definitions for the properties: what rustc makes of the       *)
(* printed definitions.  A #[repr(C)] struct places each field at the next *)
(* multiple of the field's alignment (at the previous end when packed) and *)
(* rounds its size up to its alignment; a union puts every field at 0.     *)
(* The alignment of a printed struct is 1 when it is packed and otherwise  *)
(* the largest alignment of its fields; padding arrays have alignment 1.   *)
(* An aggregate named by a field is taken to have its BTF size (its own    *)
(* definition is checked separately).                                      *)
(***************************************************************************)
RoundUp(x, a) == ((x + a - 1) \div a) * a

RECURSIVE RustAlign(_, _), RustSize(_, _)
RustAlign(g0, id) ==
  LET s == SkipModsAndTypedefs(g0, id).v
      t == g0[s]
  IN  CASE t.kind = "Int" -> (t.bits + 7) \div 8
        [] t.kind = "Ptr" -> PtrSize
        [] t.kind \in {"Array", "Var"} -> RustAlign(g0, t.ref)
        [] t.kind = "Struct" /\ IsStructPacked(g0, s).v -> 1
        [] t.kind \in {"Struct", "Union"} ->
             Max({1} \cup {RustAlign(g0, t.mems[i].type) : i \in DOMAIN t.mems})
        [] OTHER -> t.size

RustSize(g0, id) ==
  LET s == SkipModsAndTypedefs(g0, id).v
      t == g0[s]
  IN  CASE t.kind = "Int" -> (t.bits + 7) \div 8
        [] t.kind = "Ptr" -> PtrSize
        [] t.kind = "Array" -> t.nelems * RustSize(g0, t.ref)
        [] t.kind = "Var" -> RustSize(g0, t.ref)
        [] OTHER -> t.size

FieldAlign(g0, f) == IF f.ty = NoType THEN 1 ELSE RustAlign(g0, f.ty)
FieldSize(g0, f)  == IF f.ty = NoType THEN f.decl[3] ELSE RustSize(g0, f.ty)

\* The offsets rustc gives the fields fs[i..] when the field before ends at end.
RECURSIVE Placement(_, _, _, _, _)
Placement(g0, fs, packed, i, end) ==
  IF i > Len(fs) THEN <<>>
  ELSE LET at == IF packed THEN end ELSE RoundUp(end, FieldAlign(g0, fs[i]))
       IN  <<at>> \o Placement(g0, fs, packed, i + 1, at + FieldSize(g0, fs[i]))

\* The named aggregates a Rust type term mentions.
RECURSIVE NamedIn(_)
NamedIn(d) ==
  CASE d[1] = "named" -> {d[2]}
    [] d[1] \in {"ptr", "arr"} -> NamedIn(d[2])
    [] OTHER -> {}

\* Whether a Rust type implements Default: no raw pointer or c_void does, an
\* array only up to 32 elements, an enum only when an impl Default is printed.
RECURSIVE HasDefault(_, _)
HasDefault(g0, d) ==
  CASE d[1] = "named" ->
         g0[d[2]].kind \in {"Struct", "Union"} \/ g0[d[2]].mems # <<>>
    [] d[1] = "arr" -> d[3] <= 32 /\ HasDefault(g0, d[2])
    [] d[1] \in {"ptr", "c_void"} -> FALSE
    [] OTHER -> TRUE

Emitted   == {defs[i].id : i \in DOMAIN defs}
Mentioned == UNION {UNION {NamedIn(f.decl) : f \in Range(defs[i].fields)} :
                      i \in DOMAIN defs}

-----------------------------------------------------------------------------
TypeOK ==
  /\ request \in DOMAIN g
  /\ queue \in Seq(DOMAIN g)
  /\ processed \subseteq DOMAIN g
  /\ cur.id \in DOMAIN g \cup {NoType}
  /\ \A i \in DOMAIN defs :
       /\ defs[i].id \in processed
       /\ defs[i].agg \in {"struct", "union", "enum", "datasec"}
       /\ defs[i].defaultBy \in {"derive", "impl", "none"}
  /\ status \in {"start", "running", "done", "err", "hang", "crash"}

(***************************************************************************)
(* Termination: the worklist loop of type_definition, with the processed   *)
(* set guarding against revisits, returns (Ok or Err) on every type table  *)
(* and request: no loop of next_type or skip_mods_and_typedefs spins and no *)
(* recursion of align_of, size_of or type_declaration overflows the stack, *)
(* and no index panics.                                                    *)
(***************************************************************************)
Terminates == <>(status \in {"done", "err"})

(***************************************************************************)
(* Closure: when type_definition returns Ok, it has printed each definable *)
(* type exactly once, every struct, union or enum a printed field's type   *)
(* names (through pointers and arrays) is printed, and nothing else but    *)
(* the requested type is.  This ties the worklist fed by next_type to the  *)
(* names type_declaration prints.                                          *)
(***************************************************************************)
DefinitionsClosed ==
  status = "done" =>
    /\ Mentioned \subseteq Emitted
    /\ Emitted \subseteq Mentioned \cup {request}
    /\ Len(defs) = Cardinality(Emitted)

(***************************************************************************)
(* Refinement: type_definition implements DefinitionWorklist, the order in *)
(* which it promises to print: the requested type first, then only types   *)
(* a field of an already printed definition leads to through next_type,    *)
(* none twice, and Ok only once nothing they lead to is left unprinted.    *)
(* The queue, the processed set and the member loop are hidden: a step     *)
(* that only moves them is a stuttering step of the abstract machine.      *)
(***************************************************************************)
Worklist == INSTANCE DefinitionWorklist WITH printed <- [i \in DOMAIN defs |-> defs[i].id]

WorklistRefined == Worklist!Spec

(***************************************************************************)
(* Layout: the comment in required_padding promises that the printed       *)
(* struct has the layout BTF describes.  For every printed struct, union   *)
(* and datasec, rustc places each member at the byte offset BTF gives it,  *)
(* and a struct or union gets exactly the BTF size.                        *)
(***************************************************************************)
\* The byte offset BTF gives member or var j of type id.
BtfOffset(id, j) ==
  IF g[id].kind = "Datasec" THEN g[id].mems[j].offset
  ELSE g[id].mems[j].bitOff \div 8

LayoutAgrees(d) ==
  LET fs  == d.fields
      at  == IF d.agg = "union" THEN [i \in DOMAIN fs |-> 0]
             ELSE Placement(g, fs, d.packed, 1, 0)
      end == Max({0} \cup {at[i] + FieldSize(g, fs[i]) : i \in DOMAIN fs})
      al  == IF d.packed THEN 1
             ELSE Max({1} \cup {FieldAlign(g, fs[i]) : i \in DOMAIN fs})
  IN  /\ \A i \in DOMAIN fs : fs[i].mem # 0 => at[i] = BtfOffset(d.id, fs[i].mem)
      /\ d.agg \in {"struct", "union"} => RoundUp(end, al) = g[d.id].size

LayoutMatchesBtf == \A i \in DOMAIN defs : LayoutAgrees(defs[i])

(***************************************************************************)
(* Default: a struct printed with #[derive(Default)] compiles only when    *)
(* the type of each of its fields, padding arrays included, implements     *)
(* Default.                                                                *)
(***************************************************************************)
DerivedDefaultSound ==
  \A i \in DOMAIN defs :
    defs[i].defaultBy = "derive" =>
      \A j \in DOMAIN defs[i].fields : HasDefault(g, defs[i].fields[j].decl)

(***************************************************************************)
(* Panics: type_definition reports a malformed table with an Err and never *)
(* panics (the spec's decoder and generator promise), so no call ends in a *)
(* crash such as the impl_default[0] of the union arm.                     *)
(***************************************************************************)
NoPanic == status # "crash"

(***************************************************************************)
(* Default impls: the impl Default printed for a struct initialises every  *)
(* field it declares and nothing else, and the one printed for a union     *)
(* initialises exactly one of its fields.  The initialisers are named by   *)
(* member.name while the fields of anonymous members are named by their    *)
(* type, and a member whose type_default failed before the first array    *)
(* longer than 32 is dropped.                                              *)
(***************************************************************************)
FieldNames(d) == {d.fields[j].name : j \in DOMAIN d.fields}
InitNames(d)  == {d.init[j].name : j \in DOMAIN d.init}

ImplDefaultMatchesFields ==
  \A i \in DOMAIN defs :
    LET d == defs[i]
    IN  d.defaultBy = "impl" /\ d.agg \in {"struct", "union"} =>
          IF d.agg = "struct" THEN InitNames(d) = FieldNames(d)
          ELSE Len(d.init) = 1 /\ InitNames(d) \subseteq FieldNames(d)

(***************************************************************************)
(* The Default of every printed definition compiles: a derived Default     *)
(* only on fields whose types implement Default, and an impl Default that  *)
(* initialises the fields the definition declares.  A struct printed with  *)
(* #[derive(Default)] and an anonymous member's initialiser are the two    *)
(* places type_definition can get it wrong.                                *)
(***************************************************************************)
DefaultCompiles == DerivedDefaultSound /\ ImplDefaultMatchesFields

=============================================================================
