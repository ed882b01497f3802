---------------------------- MODULE MCBtfLoader ----------------------------
(***************************************************************************)
(* Buffers for checking BtfLoader.  The type section holds up to NumRecs   *)
(* records drawn from a palette of kind tags (Tags, which may include Void *)
(* and an unknown tag), names, member counts and referenced ids; it is     *)
(* either whole or cut 4 bytes short.  The header is well formed or has a  *)
(* bad version, the only faults a header libbpf accepted can still have    *)
(* (LibbpfAccepts).  Header words are 4-bit (U32 = 16), header 2 units.    *)
(***************************************************************************)
EXTENDS BtfLoader

CONSTANTS NumRecs, Tags, Names, MemberNames, Vlens, Refs

NamedKinds == {"Int", "Var", "DeclTag", "Datasec", "Float", "Fwd", "Typedef",
               "Func", "TypeTag"} \cup AnonKinds

\* A record with the fields its kind does not read set to one value.
Norm(r) ==
  LET k == KindName(r.kind)
      n == IF k \in DOMAIN ElemSize THEN r.vlen ELSE 0
  IN  [kind  |-> r.kind,
       vlen  |-> n,
       name  |-> IF k \in NamedKinds THEN r.name ELSE "",
       mname |-> IF k \in AnonKinds \cup {"FuncProto"} /\ n > 0 THEN r.mname ELSE "",
       ref   |-> IF k \in RefKinds \/ (k \in MemberKinds /\ n > 0) THEN r.ref ELSE 0,
       sub   |-> IF k \in {"Int", "Var"} THEN r.sub ELSE TRUE]

Records ==
  {Norm(r) : r \in [kind : Tags, vlen : Vlens, name : Names, mname : MemberNames,
                    ref : Refs, sub : BOOLEAN]}

RecSeqs == UNION {[1 .. n -> Records] : n \in 0 .. NumRecs}

Hdr(magic, version, strOff, strLen, typeLen, dataLen) ==
  [magic |-> magic, version |-> version, hdrLen |-> 2, typeOff |-> 0,
   typeLen |-> typeLen, strOff |-> strOff, strLen |-> strLen, dataLen |-> dataLen]

GoodHdr == Hdr(TRUE, TRUE, 4, 4, 4, 10)

BadHdrs == {Hdr(TRUE, FALSE, 4, 4, 4, 10)}

MCInputs ==
  UNION {{[obj |-> "ok", hdr |-> GoodHdr, recs |-> rs, typeLen |-> tl] :
            tl \in {TotalLen(rs)} \cup (IF rs = <<>> THEN {} ELSE {TotalLen(rs) - 4})} :
         rs \in RecSeqs}
  \cup {[obj |-> o, hdr |-> GoodHdr, recs |-> <<>>, typeLen |-> 0] : o \in {"nobtf", "fail"}}
  \cup {[obj |-> "ok", hdr |-> h, recs |-> <<>>, typeLen |-> 0] : h \in BadHdrs}

MCBuilds == {"debug", "release"}

=============================================================================
