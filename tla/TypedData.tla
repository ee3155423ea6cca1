------------------------------ MODULE TypedData ------------------------------
(***************************************************************************)
(* sig_utils/encoding.py: the hash of structured data, and the standard    *)
(* (EIP-712) that it implements, which the CoW API follows.                *)
(*                                                                         *)
(* The argument types maps the name of a struct to its schema, a sequence  *)
(* of fields; an encoding is a sequence of words.                          *)
(***************************************************************************)
EXTENDS HashWords

CONSTANTS
  \* The names of the structs in alphabetical order.
  StructNames,
  \* The documents to be hashed: records with types, primaryType, domain (a dict, as
  \* a sequence of fields with their values, in any order) and message.
  Documents

EncodeSingle(type, value) == [type |-> type, value |-> value]

\* types.get(name): an empty schema counts as none.
IsStruct(type, types) ==
  ~type.array /\ type.base \in DOMAIN types /\ types[type.base] # <<>>

-----------------------------------------------------------------------------
(* encoding.py *)

\* The structs that a struct refers to.  The type of an array is the name of no
\* struct, so that its elements are not looked at.
RECURSIVE FindDependencies(_, _, _)
FindDependencies(type, types, found) ==
  IF type.base \in found \/ ~IsStruct(type, types)
  THEN found
  ELSE FoldLeft(LAMBDA f, field : FindDependencies(field.type, types, f),
                found \cup {type.base},
                types[type.base])

Definition(name, types) == [struct |-> name, fields |-> types[name]]

\* Faulty variant of CreateSchema: dependencies of dependencies are left out.
CreateSchemaDirect(name, types) ==
  LET found == {types[name][i].type.base : i \in DOMAIN types[name]} \cap DOMAIN types
      sorted == SelectSeq(StructNames, LAMBDA n : n \in found \ {name})
  IN  [i \in 1..(Len(sorted) + 1) |->
         Definition(IF i = 1 THEN name ELSE sorted[i - 1], types)]

\* The definition of the struct and, sorted by name, those of its dependencies.
CreateSchema(name, types) ==
  LET found == FindDependencies(Type(name), types, {}) \ {name}
      sorted == SelectSeq(StructNames, LAMBDA n : n \in found)
  IN  [i \in 1..(Len(sorted) + 1) |->
         Definition(IF i = 1 THEN name ELSE sorted[i - 1], types)]

\* An unknown name raises KeyError.
CreateSchemaHash(name, types) ==
  IF name \in DOMAIN types THEN [sha3 |-> CreateSchema(name, types)] ELSE Raised

RECURSIVE EncodeData(_, _, _), EncodeValue(_, _, _)

\* The hash of the schema and one word for each field; a missing field raises.
EncodeData(name, data, types) ==
  <<CreateSchemaHash(name, types)>> \o
    IF name \notin DOMAIN types THEN <<>>
    ELSE [i \in DOMAIN types[name] |->
            LET field == types[name][i]
            IN  IF field.name \in DOMAIN data
                THEN EncodeValue(field.type, data[field.name], types)
                ELSE Raised]

\* For a value of type bytes a function of utils is called that does not exist.  The
\* elements of an array are joined as they are encoded, and must be structs.
EncodeValue(type, value, types) ==
  CASE type = Type("string")     -> Sha3(<<EncodeSingle(type, value)>>)
    [] type = Type("bytes")      -> Raised
    [] IsStruct(type, types)     -> Sha3(EncodeData(type.base, value, types))
    [] type.array             ->
         Sha3(FlattenSeq([i \in DOMAIN value |-> EncodeData(type.base, value[i], types)]))
    [] OTHER                     -> EncodeSingle(type, value)

CreateStructHash(name, data, types) == Sha3(EncodeData(name, data, types))

\* Faulty variant of EncodeTypedData: the digest is that of the message in any domain.
EncodeTypedDataUnbound(document) ==
  CreateStructHash(document.primaryType, document.message, document.types)

\* encode_typed_data asserts that the parts of the document are there.
EncodeTypedData(document) ==
  IF \/ "EIP712Domain" \notin DOMAIN document.types
     \/ document.types["EIP712Domain"] = <<>>
     \/ document.domain = <<>>
     \/ document.message = <<>>
  THEN Raised
  ELSE Digest(CreateStructHash("EIP712Domain", document.domain, document.types),
              CreateStructHash(document.primaryType, document.message, document.types))

-----------------------------------------------------------------------------
(* EIP-712 *)

\* encodeType: the struct and, sorted by name, all structs that it refers to, as
\* fields or as elements of arrays.
StandardType(name, types) ==
  LET Refers(n) == {types[n][i].type.base : i \in DOMAIN types[n]} \cap DOMAIN types
      reach[k \in Nat] ==
        IF k = 0 THEN {name}
        ELSE reach[k - 1] \cup UNION {Refers(n) : n \in reach[k - 1]}
      sorted == SelectSeq(StructNames,
                          LAMBDA n : n \in reach[Len(StructNames)] \ {name})
  IN  [i \in 1..(Len(sorted) + 1) |->
         [struct |-> IF i = 1 THEN name ELSE sorted[i - 1],
          fields |-> types[IF i = 1 THEN name ELSE sorted[i - 1]]]]

\* hashStruct, and encodeData of a value: strings, bytes, structs and arrays are
\* represented by a hash of their contents.
RECURSIVE StandardHash(_, _, _), StandardValue(_, _, _)
StandardHash(name, data, types) ==
  [sha3 |-> <<[sha3 |-> StandardType(name, types)]>> \o
              [i \in DOMAIN types[name] |->
                 StandardValue(types[name][i].type, data[types[name][i].name], types)]]

StandardValue(type, value, types) ==
  CASE type.array ->
         [sha3 |-> [i \in DOMAIN value |->
                      StandardValue(Type(type.base), value[i], types)]]
    [] type \in {Type("string"), Type("bytes")} ->
         [sha3 |-> <<[type |-> type, value |-> value]>>]
    [] ~type.array /\ type.base \in DOMAIN types ->
         StandardHash(type.base, value, types)
    [] OTHER -> [type |-> type, value |-> value]

StandardDigest(document) ==
  [sha3 |-> <<[prefix |-> "1901"],
              StandardHash("EIP712Domain", document.domain, document.types),
              StandardHash(document.primaryType, document.message, document.types)>>]

=============================================================================
