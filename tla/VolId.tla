-------------------------------- MODULE VolId --------------------------------
(***************************************************************************)
(* The CSI volume id of util/volid.go: ComposeCSIID writes a CSIIdentifier *)
(* as three 4-digit hex fields (encoding version, ephemeral flag, length   *)
(* of the volume name), each followed by "-", then the name itself;        *)
(* DecomposeCSIID reads the fields back at fixed offsets.                  *)
(*                                                                         *)
(* A string is abstracted to what the decoder looks at: its length, the    *)
(* hex digits at offsets 0-3, 5-8 and 10-13, and the volume name (a model  *)
(* value with a length).  The separators are not read by DecomposeCSIID   *)
(* and are left out.                                                       *)
(***************************************************************************)
EXTENDS Integers, Sequences

\* maxVolIDLen, knownFieldSize and VolIDVersion.
MaxVolIDLen == 128
KnownFieldSize == 15
VolIDVersion == 1

\* uint16(x): Go's conversion keeps the low 16 bits.
Uint16(x) == x % 65536

\* binary.BigEndian.PutUint16 then hex.EncodeToString: four hex digits,
\* most significant first.
HexU16(x) == [i \in 1..4 |-> (Uint16(x) \div (16 ^ (4 - i))) % 16]

\* hex.DecodeString then binary.BigEndian.Uint16.
U16FromHex(h) == ((h[1] * 16 + h[2]) * 16 + h[3]) * 16 + h[4]

FormatBoolToUint16(b) == IF b THEN 1 ELSE 0

\* parseBoolFromUint16: 0 and 1 only; any other value is an error.
ParseBoolFromUint16(x) ==
    [ok |-> x \in {0, 1}, val |-> x = 1]

\* ComposeCSIID(ci), ci a [version, ephemeral, name] record whose name is a
\* [id, len] record: an overflow error past maxVolIDLen, else the string.
ComposeCSIID(ci) ==
    IF KnownFieldSize + ci.name.len > MaxVolIDLen
    THEN [ok |-> FALSE]
    ELSE [ok |-> TRUE,
          str |-> [len |-> KnownFieldSize + ci.name.len,
                   hex |-> <<HexU16(ci.version),
                             HexU16(FormatBoolToUint16(ci.ephemeral)),
                             HexU16(ci.name.len)>>,
                   name |-> ci.name]]

\* Bug variant: the ephemeral flag is parsed from the version field.
DecomposeCSIIDWrongField(s) ==
    LET n    == Uint16(s.len)
        flag == ParseBoolFromUint16(U16FromHex(s.hex[1]))
        nlen == U16FromHex(s.hex[3])
    IN IF n < KnownFieldSize \/ ~flag.ok \/ n - KnownFieldSize # nlen
       THEN [ok |-> FALSE]
       ELSE [ok |-> TRUE, version |-> U16FromHex(s.hex[1]), ephemeral |-> flag.val,
             name |-> [id |-> s.name.id, len |-> nlen]]

\* DecomposeCSIID(s): the byte count (as a uint16) must cover the fixed
\* fields; the flag must parse; the bytes left after the fixed fields must
\* equal the encoded name length; the name is the rest of the string.
DecomposeCSIID(s) ==
    LET n    == Uint16(s.len)
        flag == ParseBoolFromUint16(U16FromHex(s.hex[2]))
        nlen == U16FromHex(s.hex[3])
    IN IF n < KnownFieldSize \/ ~flag.ok \/ n - KnownFieldSize # nlen
       THEN [ok |-> FALSE]
       ELSE [ok |-> TRUE, version |-> U16FromHex(s.hex[1]), ephemeral |-> flag.val,
             name |-> [id |-> s.name.id, len |-> nlen]]

====
