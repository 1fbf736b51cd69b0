----------------------------- MODULE KmipObjects -----------------------------
(***************************************************************************)
(* The two object universes that kmip.pie.factory.ObjectFactory converts   *)
(* between: the Pie ("simplified") objects of kmip.pie.objects and the     *)
(* core ("protocol") objects of kmip.core.secrets.  Neither class          *)
(* hierarchy is part of this repository's sources, so the shapes below are *)
(* taken from the data model of the spec (section 3); only the fields the  *)
(* factory reads or writes are kept, and every byte string, identifier or  *)
(* enumeration value is a member of a small CONSTANT set.                  *)
(***************************************************************************)
EXTENDS Naturals, Sequences

CONSTANTS
  NONE,             \* Python None: an absent optional field
  Algorithms,       \* CryptographicAlgorithm enumeration values
  Lengths,          \* cryptographic lengths (bits)
  Materials,        \* opaque byte strings: key material, certificate DER
  Formats,          \* KeyFormatType enumeration values
  SymFormat,        \* the one format a Pie SymmetricKey has (RAW)
  OpaqueFormat,     \* KeyFormatType.OPAQUE
  CertTypes,        \* CertificateType enumeration values
  X509,             \* CertificateType.X_509
  SecretTypes,      \* SecretDataType enumeration values
  OpaqueTypes,      \* OpaqueDataType enumeration values
  SplitMethods,     \* SplitKeyMethod enumeration values
  SplitNumbers,     \* split-key parts, identifiers, thresholds, prime sizes
  WrapMethods,      \* WrappingMethod enumeration values
  UIDs,             \* unique identifiers of wrapping keys
  Nonces,           \* MAC signatures and IV/counter/nonce byte strings
  EncodingOptions,  \* EncodingOption enumeration values
  ParamValues,      \* values of the cryptographic-parameter fields
  Params,           \* the CryptographicParameters values considered
  Masks,            \* CryptographicUsageMask enumeration values
  MaskLists,        \* lists of CryptographicUsageMask values
  NameLists         \* lists of names of a Pie certificate

(* The thirteen fields of CryptographicParameters the factory copies. *)
ParamFields ==
  {"block_cipher_mode", "padding_method", "hashing_algorithm",
   "key_role_type", "digital_signature_algorithm", "cryptographic_algorithm",
   "random_iv", "iv_length", "tag_length", "fixed_field_length",
   "invocation_field_length", "counter_length", "initial_counter_value"}

(* The names a Pie certificate gets when none is given. *)
DefaultNames == <<"Certificate">>

ASSUME ConstantsAssumption ==
  /\ SymFormat \in Formats
  /\ OpaqueFormat \in Formats
  /\ X509 \in CertTypes
  /\ Params \subseteq [ParamFields -> ParamValues \cup {NONE}]
  /\ MaskLists \subseteq Seq(Masks)
  /\ <<>> \in MaskLists
  /\ \A l \in NameLists : Len(l) > 0
  /\ DefaultNames \in NameLists
  /\ NONE \notin Algorithms \cup Lengths \cup Materials \cup Formats
                 \cup UIDs \cup Nonces \cup EncodingOptions \cup SplitNumbers

KeyKinds  == {"SymmetricKey", "PublicKey", "PrivateKey"}
Kinds     == KeyKinds \cup {"Certificate", "SecretData", "OpaqueObject", "SplitKey"}
Spaces    == {"pie", "core"}

(* A Python dict with no keys. *)
EmptyMap == [f \in {} |-> NONE]

(***************************************************************************)
(* Key wrapping data.  On the Pie side it is a dict whose key-information  *)
(* entries are dicts, an absent block being the empty dict; on the core    *)
(* side it is a KeyWrappingData whose absent blocks are None.              *)
(***************************************************************************)
KeyInfos == [unique_identifier : UIDs, cryptographic_parameters : Params \cup {NONE}]

WrapsWith(infos) ==
  [wrapping_method : WrapMethods,
   encryption_key_information : infos,
   mac_signature_key_information : infos,
   mac_signature : Nonces \cup {NONE},
   iv_counter_nonce : Nonces \cup {NONE},
   encoding_option : EncodingOptions \cup {NONE}]

PieWraps  == WrapsWith(KeyInfos \cup {EmptyMap})
CoreWraps == WrapsWith(KeyInfos \cup {NONE})

(* The core KeyBlock, its KeyValue/KeyMaterial chain collapsed into one field. *)
KeyBlocksWith(fmts, algs, lens, wraps) ==
  [key_format_type : fmts, key_material : Materials,
   cryptographic_algorithm : algs, cryptographic_length : lens,
   key_wrapping_data : wraps]

(* A key block read off the wire may omit its algorithm and length. *)
KeyBlocks == KeyBlocksWith(Formats, Algorithms \cup {NONE}, Lengths \cup {NONE},
                           CoreWraps \cup {NONE})

(***************************************************************************)
(* Pie objects.                                                            *)
(***************************************************************************)
PieKeys ==
  [space : {"pie"}, kind : KeyKinds,
   cryptographic_algorithm : Algorithms, cryptographic_length : Lengths,
   value : Materials, key_format_type : Formats,
   key_wrapping_data : PieWraps \cup {NONE}]

(* A Pie SymmetricKey always has the format SymFormat. *)
PieKeyOK(k) == k.kind = "SymmetricKey" => k.key_format_type = SymFormat

PieSplitKeys ==
  [space : {"pie"}, kind : {"SplitKey"},
   cryptographic_algorithm : Algorithms, cryptographic_length : Lengths,
   value : Materials, key_format_type : Formats,
   key_wrapping_data : PieWraps \cup {NONE},
   split_key_parts : SplitNumbers, key_part_identifier : SplitNumbers,
   split_key_threshold : SplitNumbers, split_key_method : SplitMethods,
   prime_field_size : SplitNumbers \cup {NONE}]

PieCertificates ==
  [space : {"pie"}, kind : {"Certificate"}, certificate_type : CertTypes,
   value : Materials, cryptographic_usage_masks : MaskLists, names : NameLists]

PieSecretData ==
  [space : {"pie"}, kind : {"SecretData"}, value : Materials, data_type : SecretTypes]

PieOpaqueObjects ==
  [space : {"pie"}, kind : {"OpaqueObject"}, value : Materials, opaque_type : OpaqueTypes]

(***************************************************************************)
(* Core objects.                                                           *)
(***************************************************************************)
CoreKeys == [space : {"core"}, kind : KeyKinds, key_block : KeyBlocks]

CoreSplitKeys ==
  [space : {"core"}, kind : {"SplitKey"}, key_block : KeyBlocks,
   split_key_parts : SplitNumbers, key_part_identifier : SplitNumbers,
   split_key_threshold : SplitNumbers, split_key_method : SplitMethods,
   prime_field_size : SplitNumbers \cup {NONE}]

CoreCertificates ==
  [space : {"core"}, kind : {"Certificate"}, certificate_type : CertTypes,
   certificate_value : Materials]

(* A core SecretData read off the wire may carry any key format. *)
CoreSecretData ==
  [space : {"core"}, kind : {"SecretData"}, secret_data_type : SecretTypes,
   key_block : KeyBlocksWith(Formats, {NONE}, {NONE}, {NONE})]

CoreOpaqueObjects ==
  [space : {"core"}, kind : {"OpaqueObject"}, opaque_data_type : OpaqueTypes,
   opaque_data_value : Materials]

(* An object of either universe that the factory has no case for. *)
Unsupported == [space : Spaces, kind : {"Unsupported"}]

PieObjects  == {k \in PieKeys : PieKeyOK(k)} \cup PieSplitKeys \cup PieCertificates \cup PieSecretData
                 \cup PieOpaqueObjects
CoreObjects == CoreKeys \cup CoreSplitKeys \cup CoreCertificates \cup CoreSecretData
                 \cup CoreOpaqueObjects
Objects     == PieObjects \cup CoreObjects \cup Unsupported

(***************************************************************************)
(* Errors raised by a conversion.  The factory raises TypeError for the    *)
(* three cases the spec names; "AttributeError" is what Python raises when *)
(* an attribute of None is read.                                           *)
(***************************************************************************)
ErrorKinds == {"UnsupportedVariant", "UnsupportedCertificateType",
               "FormatMismatch", "AttributeError"}
Errors == [error : ErrorKinds]
Err(k) == [error |-> k]
IsErr(v) == v \in Errors

(* None is none of the values an optional field holds when present. *)
ASSUME NoneAssumption ==
  NONE \notin Params \cup KeyInfos \cup PieWraps \cup CoreWraps \cup Errors \cup {EmptyMap}

(***************************************************************************)
(* Constructors of the two hierarchies that the factory calls.  They are   *)
(* outside this repository and follow the spec.                            *)
(***************************************************************************)

(* kmip.core.objects.KeyWrappingData built from the dict d: an empty key-information dict   *)
(* stands for an absent block.                                             *)
CoreKeyInfo(i) ==
  IF i = EmptyMap THEN NONE
  ELSE [unique_identifier |-> i.unique_identifier,
        cryptographic_parameters |-> i.cryptographic_parameters]

KeyWrappingData(d) ==
  [wrapping_method |-> d.wrapping_method,
   encryption_key_information |-> CoreKeyInfo(d.encryption_key_information),
   mac_signature_key_information |-> CoreKeyInfo(d.mac_signature_key_information),
   mac_signature |-> d.mac_signature,
   iv_counter_nonce |-> d.iv_counter_nonce,
   encoding_option |-> d.encoding_option]

(* kmip.pie.objects.X509Certificate(value): default masks and names. *)
X509Certificate(value) ==
  [space |-> "pie", kind |-> "Certificate", certificate_type |-> X509,
   value |-> value, cryptographic_usage_masks |-> <<>>, names |-> DefaultNames]
=============================================================================
