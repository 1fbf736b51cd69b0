--------------------------- MODULE MCConvertChain ----------------------------
(***************************************************************************)
(* ConvertChain on a small instance: two byte strings, two key formats     *)
(* (the Pie SymmetricKey one and OPAQUE), two certificate types, two      *)
(* split-key numbers, one value of each other enumeration, and every       *)
(* optional field both absent and present.                                 *)
(***************************************************************************)
EXTENDS ConvertChain

CONSTANTS m1, m2, Raw, Opaque, Pgp, X509Type, alg1, fmtMethod, uid1,
          n1, enc1, sdt1, odt1, skm1, mEnc, mVer

MCMaterials   == {m1, m2}
MCFormats     == {Raw, Opaque}
MCCertTypes   == {X509Type, Pgp}
MCSplitNumbers == {1, 2}
(* A parameter set with every field absent, and one whose fields all hold *)
(* different values, so that a field copied from the wrong source shows.   *)
MCParamValues == ParamFields
MCParams ==
  {[f \in ParamFields |-> NONE], [f \in ParamFields |-> f]}
MCMasks     == {mEnc, mVer}
MCMaskLists == {<<>>, <<mEnc, mVer>>}
MCNameLists == {<<"Certificate">>, <<"Test Certificate">>}
=============================================================================
