# TLA+ verification of the PyKMIP object converter

This directory holds a TLA+ model of `src/kmip/pie/factory.py`. That file converts
managed objects between two representations: the "Pie" (simplified) objects and
the "core" (protocol) objects. It also holds TLC configurations that check the
model on small instances, and TLAPS proofs that hold for every instance.

## 1. Inventory

### Components

| Component | Source | State | Operations |
|---|---|---|---|
| `ObjectFactory.convert` dispatch | factory.py 36-76 | none | one isinstance arm for each of 7 variants × 2 directions, plus the `TypeError` else arm |
| Per-variant builders | factory.py 78-223 | none | `_build_pie_{certificate,key,secret_data,opaque_object,split_key}`, `_build_core_{key,certificate,secret_data,split_key,opaque_object}` |
| Nested structure builders | factory.py 225-272 | none | `_build_cryptographic_parameters`, `_build_key_wrapping_data` |
| Pie / core object classes | not in this repository | the objects' fields | constructors the factory calls (`KeyWrappingData(**d)`, `X509Certificate(value)`, ...) |
| Certificate entity contract | pie objects (not here); `DummyCertificate` in `tests/unit/pie/objects/test_certificate.py` | certificate type, value, masks, names | construction with validation; abstract class |
| Wire codec, client/server | not in this repository | - | out of scope |

How they interact: a caller passes an object to `convert`. `convert` picks the
builder by class. A builder of a key-bearing variant calls
`_build_key_wrapping_data`, which calls `_build_cryptographic_parameters` once
for each key-information block that is present. A builder then calls the
constructor of the target class. Nothing is stored between calls. There is no
I/O, no thread and no callback. The factory is a pure function that may raise.

### What is hard here

There is no concurrency, no persistence and nothing that can time out, so none
of the usual distributed hazards apply. What is hard is the data:

* seven variants, each with optional nested parts. Wrapping data can be
  absent, present with empty key-information blocks, or populated. Cryptographic
  parameters are optional inside each block. Split keys carry five sharing
  parameters;
* the agreement between two independently written builders, one for each
  direction. A round trip only shows up across two calls;
* guards that must fire for exactly the right inputs. The format check applies
  to SymmetricKey only, and only X.509 certificates are accepted core -> Pie;
* fields read before any guard. `_build_pie_key` reads `.value` of the optional
  algorithm and length first;
* losses that the spec allows (a secret's key format) or does not (a
  certificate's masks and names), which a round-trip check must tell apart from
  every other field;
* the exceptions that a nested builder raises and that abort the whole
  conversion.

The hazards are listed with their lines in `PROJECT.json` under "hazards".

### What makes each component correct

* convert: every supported object goes to the builder of its class, and an
  unsupported one raises.
* The builders: a round trip (Pie -> core -> Pie, or core -> Pie -> core)
  returns every field the other representation can carry. A conversion fails
  only for a reason the spec names.
* The nested builders: the three-way distinction "absent / empty block /
  populated block" is kept, and all thirteen parameter fields are copied.
* The certificate contract: construction rejects bad arguments and sets the
  defaults (masks `[]`, names `["Certificate"]`).

## 2. Modules

| Module | Models | Proved about |
|---|---|---|
| `KmipObjects` | the object shapes of both universes, the errors, and the constructors the factory calls (from the spec: *spec_modelled*) | - |
| `ObjectFactory` | every function of factory.py, as pure operators. `Convert` is `convert`, and `ToCore`/`ToPie` are its two groups of arms | `ObjectFactoryProofs` |
| `ConvertChain` | a caller that feeds `convert` its own output, up to `MaxHops` times. `trace` records the whole chain | `ConvertChainProofs`, `ConvertChainRefinement`, `ConvertChainErrors` |
| `AbstractConverter` | what one call of `convert` promises: the object keeps its class and material and changes universe, or the call fails where failing is allowed | - |
| `MCConvertChain` | the small instance for TLC | - |

How state and actions map to the code: `trace[1]` is any object of either
universe, including an unsupported one. `ConvertToCore` and `ConvertToPie` are
one call of `convert` on a Pie object and on a core object. Each appends the
result, which is an object or `[error |-> kind]`. The chain stops at an error,
like a caller that gets an exception. Each builder is one operator. A builder's
early `raise`, and each read of an attribute of `None`, is an
`IF ... THEN Err(..)` tested in the same order as in the code. For example,
`_build_pie_key` first reads the algorithm and length
(`LacksAlgorithmOrLength`), then builds the wrapping data, then checks the
format. So an `AttributeError` takes precedence over `FormatMismatch`.

Abstractions: byte strings, identifiers and enumeration values are model
values drawn from CONSTANT sets. The core KeyMaterial/KeyValue/KeyBlock chain is
a single `key_block` record. A Python dict is a record, and the empty dict is
`EmptyMap`. The Pie and core class constructors are not in this repository.
They are modelled from the spec's data model: `KeyWrappingData(**d)` turns an
empty key-information dict into an absent block, and `X509Certificate(value)`
gives default masks and names. A core key block read off the wire may lack its
algorithm and length (`NONE`). A core SecretData may carry any format.

`AbstractConverter` has three variables:
* `universe`: "pie", "core", or "failed";
* `kind`;
* `material`.

It has two actions:
* `Translate` flips the universe of a supported object;
* `Fail` is allowed for an unsupported object, and for a core key, split key or
  certificate.

`ConvertChain` maps onto it through `Abs`, an `INSTANCE ... WITH` mapping:
* the universe is that of the last entry, or "failed" when the last entry is an
  error;
* kind and material are those of the last object, with `MaterialOf` reading the
  field that holds the material in each class.

## 3. Runs

| Run | cfg | Expect | Shows |
|---|---|---|---|
| chain | `MCConvertChain.cfg` | pass | `TypeOK`, `RoundTrip`, `ErrorsJustified`, `Implements` and `RaisesExactly` hold on every chain of up to 4 conversions from each of the 69 434 objects of the instance (191 300 states) |
| no_attribute_error | `MC_NoAttributeError.cfg` | violation | `NoAttributeError`: a core SymmetricKey whose key block has no algorithm makes `convert` raise `AttributeError` in `_build_pie_key` (factory.py:88) |
| wrapped_keys_convert | `MC_WrappedKeysConvert.cfg` | violation | `WrappedKeysConvert`: a core SymmetricKey that has its algorithm and length, but whose MAC/signature key-information block has no parameters, makes `convert` raise `AttributeError` (factory.py:261, then 227; the encryption block at 252 does the same) |
| certificate_round_trip | `MC_CertificateRoundTrip.cfg` | violation | a Pie certificate loses its masks and names on Pie -> core -> Pie (factory.py:170) |

Properties:

* `RoundTrip`: for each i, if `trace[i+2]` is not an error, then `trace[i+2]`
  agrees with `trace[i]` on every field the other universe carries. For
  certificates that is type and value. For a core SecretData it is type and
  material, the fields the spec gives it. It catches any disagreement between
  the two directions' builders: a field dropped, swapped or copied from the
  wrong place, a lost wrapping block, or an empty block and an absent one
  confused.
* `ErrorsJustified`: each error has a reason in the object it was raised on:
  * only an unsupported class raises UnsupportedVariant;
  * only a core certificate that is not X.509 raises UnsupportedCertificateType;
  * only a core SymmetricKey with a non-RAW format raises FormatMismatch, never
    a public or private key;
  * only a core key block without algorithm or length, or a present wrapping
    block without parameters, raises AttributeError.
* `RaisesExactly` (an action property, `[][IsErr(Current') <=> Raises(Current)]_vars`):
  a call raises if and only if its object gives a reason, where `Raises` is the
  disjunction of the reasons of `ErrorsJustified`. It is the converse of
  `ErrorsJustified`: it catches a guard or attribute read that is dropped, or
  that is skipped because an earlier branch returned.
* `Implements` (`Abs!Spec`, a temporal property): every call keeps the class and
  the material, and moves the object to the other universe or fails where
  `AbstractConverter` allows it. No Pie object of a supported class ever fails.
* `TypeOK`: the chain holds objects of the two universes, and an error can only
  be its last entry.

Each property of the passing run has a mutant in `PROJECT.json` that TLC
catches:
* the parameter copy reads `iv_length` for `counter_length`;
* the `if encryption_key_info:` guard is dropped;
* the secret-data key block has no format;
* the `secrets.PublicKey` arm builds a Pie PrivateKey;
* `_build_pie_certificate` has no certificate-type check.

Bounds: two materials and two formats (RAW = the Pie symmetric format, and
OPAQUE). Two certificate types, split numbers {1, 2}, and one value of every
other enumeration. Every optional field is both absent and present: algorithm
and length of a core key block, wrapping data, each key-information block and
its parameters. The two parameter sets are "all absent" and "every field a
distinct value", so a mis-copied field shows. `MaxHops = 4` covers both kinds
of round trip from every start (`RoundTrip` at i = 1, 2 and 3), so a round trip
of an object that is already a result of `convert` is checked too. Larger sets
only repeat the same cases. The builders
never compare two values of the same set, except formats with SymFormat and
certificate types with X509, and both of those are in the instance.

Fairness and liveness: none. Each call of `convert` is a terminating pure
function, and the chain's length is bounded. A caller is free to stop
converting. No liveness property says anything about this code, so `Spec` has
no fairness conjunct. `CHECK_DEADLOCK FALSE` is used because a chain really does
end: after an error or after `MaxHops` calls.

## 4. Proofs (TLAPS)

Five theorems hold for every value of the constants. The TLC run `chain`
checks the same five properties on the small instance.

* `ConvertChainProofs`:
  * `TypeCorrect: Spec => []TypeOK`. `TypeOK` is inductive as it stands. The
    step follows from `ConvertType`: `convert` maps every object to an object of
    the other universe or to an error.
  * `RoundTripHolds: Spec => []RoundTrip`.
  * `ErrorsJustifiedHolds: Spec => []ErrorsJustified`.
* `ConvertChainRefinement`: `Refinement: Spec => Implements`, i.e.
  `Spec => Abs!Spec`.
* `ConvertChainErrors`: `RaisesExactlyHolds: Spec => RaisesExactly`, an
  action property.

No relational property is inductive by itself. Each relates entries of the
chain, and nothing in the properties says that one entry is the conversion of
the one before. The inductive invariant is `IInv == TypeOK /\ Linked`, where
`Linked` says that `trace[i+1] = Convert(trace[i])`. TLC checked `IInv` on the
instance before it was proved. `IInvInit` and `IInvStep` prove that it is
inductive. Each theorem then reduces to one lemma about a single object:

* `ConvertRoundTrip`: `Convert(Convert(o))` agrees with `o` on `Carried` when
  neither call raises. It has one case per class, resting on the lemmas in
  `ObjectFactoryProofs`:
  * `ParamsCopy` (the 13-field copy is the identity);
  * `InfoCopy`, `PieInfoRoundTrip` and `CoreInfoRoundTrip` (a key-information
    block, with the empty dict and `None` exchanged for an absent block);
  * `PieWrapRoundTrip` and `CoreWrapRoundTrip` (whole wrapping data);
  * `PieKeyWrapRoundTrip` and `CoreKeyWrapRoundTrip` (the optional wrapping of
    a key);
  * `PieKeyRoundTrip`, `CoreKeyRoundTrip`, `PieSplitKeyRoundTrip` and
    `CoreSplitKeyRoundTrip`.
  `ToCoreKey` and `ToPieKey` show that the three key arms of `convert` pass
  the object's own class.
* `ConvertErrorJustified`: every error `convert` returns has its reason in the
  object. It rests on:
  * `InfoError` and `WrapError`: the nested builders raise only on a present
    block without parameters, and only AttributeError;
  * `ErrorsDomain`: an error record has the one field `error`, so no object is
    taken for one.
* The refinement follows the standard layout:
  * `Init => Abs!Init`, by `ObjectAbstract`: every object is a supported class
    with a material, or unsupported;
  * `IInv /\ [Next]_vars => [Abs!Next]_Abs!vars`. A call that returns is a
    `Translate` step, by `ConvertTranslates`: class and material are kept and
    the universe flips. A call that raises is a `Fail` step, by
    `ConvertErrorJustified` and `JustifiedMayFail`: every justified error is an
    allowed failure. Here `Linked` is not needed, but `TypeOK` is: it says that
    the entry before an error is the object the call was made on;
  * PTL combines the two.
* `RaisesExactlyHolds` needs only `TypeOK`: the object a step converts is an
  object. One direction is `ConvertErrorJustified` with `JustifiedRaises`. The
  other is `ConvertErrorComplete`, with one case per class. It uses:
  * `ClassOf` and `CoreCertificateClass`: universe and class fix the set an
    object belongs to;
  * `WrapLacking`: either block without parameters makes
    `_build_key_wrapping_data` raise;
  * `KeyBuilderRaises`: `_build_pie_key` and `_build_pie_split_key` raise on
    such a block, and on a missing algorithm or length, in whichever branch.

The proofs rest on three assumptions:

* `ConstantsAssumption`: `X509 ∈ CertTypes`. A parameter set is a function
  on the 13 fields. The default masks `<<>>` and names `<<"Certificate">>` are
  in the constant sets.
* `NoneAssumption`: `NONE` is none of the values an optional field takes when
  it is present.
* `MaxHopsAssumption`: `MaxHops ∈ Nat`.

Only TLC checks the following:
* liveness, of which there is none here;
* anything about `ENABLED`;
* the three violated properties, which are counterexamples, not theorems.

## 5. Not modelled

* The wire codec and transport. They are out of scope and not in this
  repository.
* The validation inside the Pie and core constructors (key-length checks, enum
  type checks). It is not in this repository. The spec does not describe it
  beyond certificates.
* Consistency of the split-key sharing numbers (identifier and threshold at
  most the number of parts). The code copies them unchecked, and spec §4.1 and
  §9 call this a known gap, not a contract, so no property claims it.
* The Certificate construction contract (spec §4.3). `kmip.pie.objects.Certificate`
  is not in this repository. The only code here is the test's
  `DummyCertificate`, which forwards its four arguments to it. The converter
  never constructs a certificate other than `X509Certificate(value)`, whose
  defaults `KmipObjects` models. A model of the contract would only restate its
  validation predicate.

## 6. Plan

1. Done:
   * modules: `KmipObjects`, `ObjectFactory`, `ConvertChain`, `AbstractConverter`;
   * the runs above;
   * theorems: `TypeCorrect`, `RoundTripHolds`, `ErrorsJustifiedHolds`,
     `Refinement`, `RaisesExactlyHolds`.
2. If the Pie class hierarchy is added to the repository: a `CertificateEntity`
   module for the construction contract. The chain's Pie certificates would then
   be the ones that construction can produce.
