------------------------------ MODULE BtfLoader ------------------------------
(***************************************************************************)
(* The binary decoder of libbpf-cargo (btf.rs, BtfLoader and Btf::new).    *)
(*                                                                         *)
(* Btf::new asks libbpf for the raw BTF of an object, checks the header    *)
(* and locates the string and type sections with u32 sums; BtfLoader then *)
(* scans the type section one record at a time: load_type reads the       *)
(* common btf_type header, the kind tag and the kind's trailing array,     *)
(* and type_size says how far to advance.  Anonymous structs, unions and   *)
(* enums are named "__anon_<n>" from the loader's anon_count.              *)
(*                                                                         *)
(* A record of the type section is abstracted to the fields the decoder   *)
(* reads: its kind tag, vlen, the string-table entry of its name and of    *)
(* its members' names, the type id it refers to, and whether its encoding  *)
(* or linkage word is a valid enum value.  A name is either a plain string *)
(* ("" is offset 0) or one of the faulty entries                           *)
(*   "#oob"    the offset lies past the string table (string_table[offset] *)
(*             panics);                                                    *)
(*   "#utf8"   the bytes are not UTF-8 (to_str fails);                     *)
(*   "#unterm" the string runs to the end of the table without a NUL:     *)
(*             CStr::from_ptr reads on past it, which is undefined         *)
(*             behaviour: the name may come out as garbage, fail to_str,   *)
(*             or fault.                                                   *)
(* Header words are counted in units in which u32 ranges over 0..U32-1.    *)
(***************************************************************************)
EXTENDS Integers, Sequences, FiniteSets, TLC

CONSTANTS Inputs,    \* the raw buffers: [obj, hdr, recs, typeLen]
          Builds,    \* the builds: "debug" panics on u32 overflow, "release" wraps
          Width,     \* the bits of a header word
          HdrSize,   \* size of struct btf_header, in header units
          MaxScan    \* bound on the length of the decoded type vector

U32 == 2 ^ Width

(* Sizes of the on-disk structures of the BTF format (btf.h).             *)
BtfTypeSize == 12
FixedExtra  == [Int |-> 4, Var |-> 4, DeclTag |-> 4, Array |-> 12]
ElemSize    == [Struct |-> 12, Union |-> 12, Enum |-> 8, Enum64 |-> 12,
                FuncProto |-> 8, Datasec |-> 12]

(* BtfKind: tags 1..19, tag 0 is Void; any other 5-bit tag is rejected.    *)
KindTags == <<"Int", "Ptr", "Array", "Struct", "Union", "Enum", "Fwd",
              "Typedef", "Volatile", "Const", "Restrict", "Func", "FuncProto",
              "Var", "Datasec", "Float", "DeclTag", "TypeTag", "Enum64">>

KindName(tag) ==
  IF tag = 0 THEN "Void" ELSE IF tag <= Len(KindTags) THEN KindTags[tag] ELSE "Unknown"

\* A load_type whose Void arm returns the type instead of bailing.
LoadableWithVoid(tag) == tag \in 0 .. Len(KindTags)

\* BtfKind::try_from(kind)? and the Void arm that bails.
Loadable(tag) == tag \in 1 .. Len(KindTags)

AnonKinds == {"Struct", "Union", "Enum", "Enum64"}

VoidT == [kind |-> "Void", name |-> "", ref |-> 0, n |-> 0]

(* ANON_PREFIX followed by the counter, as format! prints it.               *)
AnonName(n) == "__anon_" \o ToString(n)

\* The name formatted before anon_count is bumped.
SynthNameBeforeIncrement(anon) == AnonName(anon)

\* anon_count += 1, then the name is formatted from the new count.
SynthName(anon) == AnonName(anon + 1)

IsAnon(r) == KindName(r.kind) \in AnonKinds /\ r.name = ""

\* The number of elements of the trailing array the decoded type keeps.
Elems(r) == IF KindName(r.kind) \in DOMAIN ElemSize THEN r.vlen ELSE 0

\* The BtfType load_type returns for record r when nothing fails.
Decoded(r, anon) ==
  [kind |-> KindName(r.kind),
   name |-> IF IsAnon(r) THEN SynthName(anon) ELSE r.name,
   ref  |-> r.ref,
   n    |-> Elems(r)]

(* The reads load_type makes after the common header, in the order the     *)
(* code makes them: pread of the trailing bytes (Need: how many bytes must *)
(* be there), get_btf_str (Str), and try_from of an encoding or linkage    *)
(* word (Enc).                                                              *)
Need(b) == [op |-> "need", bytes |-> b]
Str(nm) == [op |-> "str", name |-> nm]
Enc(ok) == [op |-> "enc", ok |-> ok]

\* The loops of load_members, load_enum, load_enum64 and load_func_proto:
\* pread of element i, then the string of its name.
NamedElems(r, sz) ==
  [i \in 1 .. 2 * r.vlen |-> IF i % 2 = 1 THEN Need(((i + 1) \div 2) * sz)
                                          ELSE Str(r.mname)]

LoadOps(r) ==
  LET k == KindName(r.kind) IN
  CASE k \in {"Int", "Var"}   -> <<Need(4), Str(r.name), Enc(r.sub)>>
    [] k = "DeclTag"          -> <<Need(4), Str(r.name)>>
    [] k = "Array"            -> <<Need(12)>>
    [] k \in AnonKinds        -> <<Str(r.name)>> \o NamedElems(r, ElemSize[k])
    [] k = "FuncProto"        -> NamedElems(r, ElemSize[k])
    [] k = "Datasec"          -> [i \in 1 .. r.vlen |-> Need(i * ElemSize[k])]
                                   \o <<Str(r.name)>>
    [] k \in {"Float", "Fwd", "Typedef", "Func", "TypeTag"} -> <<Str(r.name)>>
    [] OTHER                  -> <<>>

\* get_btf_str: index, CStr::from_ptr, to_str.
StrOutcomes(nm) ==
  CASE nm = "#oob"    -> {"crash"}
    [] nm = "#utf8"   -> {"err"}
    [] nm = "#unterm" -> {"ok", "err", "crash"}
    [] OTHER          -> {"ok"}

OpOutcomes(o, avail) ==
  CASE o.op = "need" -> IF o.bytes <= avail THEN {"ok"} ELSE {"err"}
    [] o.op = "enc"  -> IF o.ok THEN {"ok"} ELSE {"err"}
    [] OTHER         -> StrOutcomes(o.name)

\* The outcomes of performing ops[i..] with avail bytes after the header;
\* the first read that fails ends load_type.
RECURSIVE RunOps(_, _, _)
RunOps(ops, i, avail) ==
  IF i > Len(ops) THEN {"ok"}
  ELSE UNION {IF o = "ok" THEN RunOps(ops, i + 1, avail) ELSE {o} :
                o \in OpOutcomes(ops[i], avail)}

(* The length of a record in the type section, as the format lays it out. *)
EncodedLen(r) ==
  LET k == KindName(r.kind) IN
  BtfTypeSize + (IF k \in DOMAIN FixedExtra THEN FixedExtra[k] ELSE 0)
              + (IF k \in DOMAIN ElemSize THEN r.vlen * ElemSize[k] ELSE 0)

RECURSIVE StartOf(_, _)
StartOf(recs, i) == IF i = 1 THEN 0 ELSE StartOf(recs, i - 1) + EncodedLen(recs[i - 1])

TotalLen(recs) == StartOf(recs, Len(recs) + 1)

\* type_size with Enum64 values counted at the size of btf_enum.
TypeSizeEnum64Short(t) ==
  IF t.kind = "Void" THEN 0
  ELSE BtfTypeSize + (IF t.kind \in DOMAIN FixedExtra THEN FixedExtra[t.kind] ELSE 0)
                   + (IF t.kind \in DOMAIN ElemSize
                      THEN t.n * (IF t.kind = "Enum64" THEN 8 ELSE ElemSize[t.kind])
                      ELSE 0)

\* type_size that leaves out the common btf_type header.
TypeSizeNoCommon(t) ==
  IF t.kind = "Void" THEN 0
  ELSE (IF t.kind \in DOMAIN FixedExtra THEN FixedExtra[t.kind] ELSE 0)
       + (IF t.kind \in DOMAIN ElemSize THEN t.n * ElemSize[t.kind] ELSE 0)

(* type_size: the bytes a decoded type took on disk.                       *)
TypeSize(t) ==
  IF t.kind = "Void" THEN 0
  ELSE BtfTypeSize + (IF t.kind \in DOMAIN FixedExtra THEN FixedExtra[t.kind] ELSE 0)
                   + (IF t.kind \in DOMAIN ElemSize THEN t.n * ElemSize[t.kind] ELSE 0)

\* A u32 sum: a debug build panics on overflow (-1 here), a release build
\* wraps.
Sum32(x, y, b) ==
  IF x + y < U32 THEN x + y ELSE IF b = "debug" THEN -1 ELSE (x + y) % U32

(* What libbpf hands back.  Btf::new reads the buffer btf__raw_data       *)
(* returns for a BTF that bpf_object__open_mem has already parsed, and     *)
(* libbpf's btf_parse_hdr refuses a buffer shorter than the header, a bad *)
(* magic, or sections that do not fit the data (libbpf does not look at    *)
(* the version).  So the sums Btf::new takes of an accepted header fit.    *)
LibbpfAccepts(h) ==
  /\ h.dataLen >= HdrSize
  /\ h.magic
  /\ h.hdrLen + h.typeOff + h.typeLen <= h.hdrLen + h.strOff
  /\ h.hdrLen + h.strOff + h.strLen <= h.dataLen

ASSUME \A in \in Inputs : in.obj = "ok" => LibbpfAccepts(in.hdr)

(* Btf::new up to BtfLoader::load: the object open by libbpf (obj is "ok", *)
(* "nobtf" when the object has no BTF, or "fail" when open, endianness,    *)
(* pointer size or raw data fail), the header checks, and the section      *)
(* bounds.  The result is the stage the call goes on to.  (The overflow  *)
(* and out-of-bounds branches are the code's; LibbpfAccepts rules them   *)
(* out.)                                                                   *)
NewOutcome(in, b) ==
  LET h       == in.hdr
      strOff  == Sum32(h.hdrLen, h.strOff, b)
      typeOff == Sum32(h.hdrLen, h.typeOff, b)
  IN  IF in.obj = "nobtf" THEN "none"
      ELSE IF in.obj # "ok" THEN "err"
      ELSE IF h.dataLen < HdrSize THEN "err"
      ELSE IF ~h.magic \/ ~h.version THEN "err"
      ELSE IF strOff < 0 THEN "crash"
      ELSE IF strOff + h.strLen > h.dataLen THEN "err"
      ELSE IF typeOff < 0 THEN "crash"
      ELSE IF typeOff + h.typeLen > h.dataLen THEN "err"
      ELSE "scan"

\* What the decoder makes of bytes that are not the start of a record:
\* they fail to decode, or decode as some type none of the records is.
JunkT == [kind |-> "Int", name |-> "#junk", ref |-> 0, n |-> 0]

Res(st, t, inc) == [st |-> st, t |-> t, inc |-> inc]

(* load_type on the bytes from off to the end of the type section: the    *)
(* possible results, with inc the increment of anon_count.                 *)
LoadAt(recs, typeLen, off, anon) ==
  LET avail == typeLen - off
      at    == {i \in 1 .. Len(recs) : StartOf(recs, i) = off}
  IN  IF avail < BtfTypeSize THEN {Res("err", VoidT, 0)}
      ELSE IF at = {} THEN {Res("err", VoidT, 0), Res("ok", JunkT, 0)}
      ELSE LET r == recs[CHOOSE i \in at : TRUE]
           IN  IF ~Loadable(r.kind) THEN {Res("err", VoidT, 0)}
               ELSE {IF o = "ok"
                     THEN Res("ok", Decoded(r, anon), IF IsAnon(r) THEN 1 ELSE 0)
                     ELSE Res(o, VoidT, 0) :
                       o \in RunOps(LoadOps(r), 1, avail - BtfTypeSize)}

-----------------------------------------------------------------------------
VARIABLES input,       \* the buffer Btf::new was given
          build,       \* the build profile of the binary
          stage,       \* "new", "scan", then "done", "none", "err" or "crash"
          off,         \* load_now's offset into the type section
          types,       \* load_now's vector of decoded types
          anon_count   \* BtfLoader.anon_count

vars == <<input, build, stage, off, types, anon_count>>

Init ==
  /\ input \in Inputs
  /\ build \in Builds
  /\ stage = "new"
  /\ off = 0
  /\ types = <<VoidT>>
  /\ anon_count = 0

\* Btf::new up to the call of BtfLoader::load.
New ==
  /\ stage = "new"
  /\ stage' = NewOutcome(input, build)
  /\ UNCHANGED <<input, build, off, types, anon_count>>

\* One iteration of load_now's loop: load_type, then off += type_size, push.
LoadType ==
  /\ stage = "scan"
  /\ off < input.typeLen
  /\ Len(types) < MaxScan
  /\ \E res \in LoadAt(input.recs, input.typeLen, off, anon_count) :
       \/ /\ res.st = "ok"
          /\ off' = off + TypeSize(res.t)
          /\ types' = Append(types, res.t)
          /\ anon_count' = anon_count + res.inc
          /\ UNCHANGED stage
       \/ /\ res.st # "ok"
          /\ stage' = res.st
          /\ UNCHANGED <<off, types, anon_count>>
  /\ UNCHANGED <<input, build>>

\* The loop ends: Ok(types), and Btf::new returns Ok(Some(btf)).
Loaded ==
  /\ stage = "scan"
  /\ off >= input.typeLen
  /\ stage' = "done"
  /\ UNCHANGED <<input, build, off, types, anon_count>>

Next == New \/ LoadType \/ Loaded

Spec == Init /\ [][Next]_vars /\ WF_vars(Next)

-----------------------------------------------------------------------------
(* Properties.                                                              *)

\* The type ids a decoded type refers to: the type_id of the modifiers,
\* typedefs, funcs, vars and tags, the element of an array, the return of a
\* func proto, and the member or var types of aggregates and datasecs.
RefKinds    == {"Ptr", "Typedef", "Volatile", "Const", "Restrict", "Func",
                "Var", "TypeTag", "DeclTag", "Array", "FuncProto"}
MemberKinds == {"Struct", "Union", "Datasec"}

RefsOf(t) ==
  IF t.kind \in RefKinds \/ (t.kind \in MemberKinds /\ t.n > 0) THEN {t.ref} ELSE {}

\* What of a decoded type does not depend on the anonymous-name counter.
Shape(t) == [kind |-> t.kind, ref |-> t.ref, n |-> t.n]

\* The number of anonymous aggregates among the first i records.
AnonUpTo(recs, i) == Cardinality({j \in 1 .. i : IsAnon(recs[j])})

\* The decoded vector starts with Void, and holds only types of real kinds.
TypeOK ==
  /\ stage \in {"new", "scan", "done", "none", "err", "crash"}
  /\ off \in Nat /\ anon_count \in Nat
  /\ types[1] = VoidT
  /\ \A i \in 2 .. Len(types) : types[i].kind \in {KindTags[j] : j \in DOMAIN KindTags}

(* load_now advances by type_size of what load_type returned.  Over any    *)
(* sequence of records of different kinds and lengths, the scan stays on   *)
(* record boundaries: type i + 1 is the decoding of record i, and a scan   *)
(* that returns Ok has decoded every record of the section exactly once.   *)
DecodedMatchesRecords ==
  LET recs == input.recs IN
  /\ stage \in {"scan", "done"} =>
       /\ Len(types) - 1 <= Len(recs)
       /\ \A i \in 1 .. Len(types) - 1 : Shape(types[i + 1]) = Shape(Decoded(recs[i], 0))
  /\ stage = "done" => Len(types) = Len(recs) + 1

(* anon_count is bumped in load_struct, load_union, load_enum and          *)
(* load_enum64 before the name is formatted: it counts the anonymous       *)
(* aggregates decoded so far, and the k-th of them in encounter order is   *)
(* named __anon_k, so the synthesized names are distinct and increase.      *)
AnonNamesInOrder ==
  LET recs == input.recs
      seen == {i \in 1 .. Len(types) - 1 : i <= Len(recs)}
  IN  stage \in {"scan", "done"} =>
        /\ anon_count = Cardinality({i \in seen : IsAnon(recs[i])})
        /\ \A i \in seen : IsAnon(recs[i]) =>
             types[i + 1].name = AnonName(AnonUpTo(recs, i))

(* Btf::new returns: the scan of load_now ends (every record is at least   *)
(* the 12-byte btf_type, so the offset grows), with Ok, None or an error.  *)
Terminates == <>(stage \in {"done", "none", "err", "crash"})

(* The spec: the decoder never panics on the bytes of an object; every     *)
(* offset is bounds-checked and every failure is an error.                  *)
NoPanic == stage # "crash"

(* The spec: every type id a decoded type refers to resolves within the    *)
(* table, validated at decode time, or the decode fails.                    *)
RefsResolve ==
  stage = "done" => \A i \in 2 .. Len(types) : RefsOf(types[i]) \subseteq 0 .. Len(types) - 1

(* The spec: the names synthesized for anonymous structs, unions and      *)
(* enums are unique within one decode pass.  A name load_struct, load_union,*)
(* load_enum or load_enum64 formats as __anon_<n> is the name of no other   *)
(* decoded type, so the definitions the generator prints from them are not *)
(* redefinitions.                                                          *)
AnonNamesUnique ==
  LET recs == input.recs IN
  stage = "done" =>
    \A i, j \in 1 .. Len(recs) :
      i # j /\ IsAnon(recs[i]) => types[i + 1].name # types[j + 1].name

=============================================================================
