-------------------------------- MODULE Hpack --------------------------------
(***************************************************************************)
(* The header tables of an HTTP/2 connection.  The client's encoder and    *)
(* the server's decoder each keep a table of recent header fields, newest  *)
(* first, and never exchange it: they stay in step only because they add   *)
(* and evict the same entries.  The encoder evicts by size (RFC 7541), the *)
(* decoder of hpack.c by number.                                           *)
(*                                                                         *)
(* A value is a member of a small set: "empty" is the empty string, "cut"  *)
(* one longer than a table entry holds, which is read as "clipped", or as  *)
(* "empty" if it is Huffman coded, "refused" one longer than the request    *)
(* has room for under its name (a 431 or 414), and "huge" one above 10240  *)
(* bytes, which is read as "empty" together with the rest of the block.    *)
(***************************************************************************)
EXTENDS Integers, FiniteSets, SequencesExt

CONSTANTS
  Name,             (* header names                                         *)
  Value,            (* header values that fit                               *)
  Static,           (* the static table, as a sequence of fields            *)
  FieldSize,        (* name -> the size of an entry, RFC 7541 section 4.1   *)
  TableSize,        (* SETTINGS_HEADER_TABLE_SIZE of the encoder            *)
  Entries,          (* slots of the decoder: 128                            *)
  BlockLength       (* bound: fields of one header block                    *)

Special == {"empty", "cut", "clipped", "refused", "huge"}
Field == [name : Name, value : Value \cup {"empty", "cut", "refused", "huge"}]

(* 4096 / 32 = 128: the smallest entries fill the decoder's table exactly. *)
ASSUME HpackAssumption ==
  /\ Static \in Seq([name : Name, value : Value \cup {"empty"}])
  /\ FieldSize \in [Name -> Nat \ {0}]
  /\ Value \cap Special = {}
  /\ TableSize \in 0 .. Entries
  /\ Entries \in Nat \ {0}

VARIABLES
  encoder,          (* the client's dynamic table                           *)
  dyn_table,        (* the server's                                         *)
  left,             (* fields of the block that are still to come           *)
  failed,           (* the rest of the block is not read                    *)
  misread,          (* history: the server took a field for another one     *)
  lost              (* history: the server did not add what the client did  *)

hpackVars == <<encoder, dyn_table, left, failed, misread, lost>>

HpackInit ==
  /\ encoder = <<>> /\ dyn_table = <<>>
  /\ left = 0 /\ failed = FALSE
  /\ misread = FALSE /\ lost = FALSE

(* The first n fields, if there are as many. *)
Newest(s, n) == SubSeq(s, 1, Min({n, Len(s)}))

(* An index counts the static table first, then the dynamic one.           *)
At(s, i) == IF i \in DOMAIN s THEN <<s[i]>> ELSE <<>>
Entry(i) == At(Static \o encoder, i)

(* Fault: dynamic entries are counted from one too far. *)
GetHeaderShifted(i) ==
  IF i <= Len(Static) THEN At(Static, i) ELSE At(dyn_table, i - Len(Static) + 1)

(* http2_hpack_get_header. *)
GetHeader(i) ==
  IF i <= Len(Static) THEN At(Static, i) ELSE At(dyn_table, i - Len(Static))

(* The size of a table, as the number of octets its entries take.          *)
Octets(table, i) == {i} \X (1 .. FieldSize[table[i].name])
SizeOf(table) == Cardinality(UNION {Octets(table, i) : i \in DOMAIN table})

(* The encoder drops the oldest entries until the new one fits. *)
EncoderAdd(table, f) ==
  Newest(<<f>> \o table,
        Max({n \in 0 .. Len(table) + 1 : SizeOf(Newest(<<f>> \o table, n)) <= TableSize}))

(* http2_hpack_dynamic_table_add: a full table drops its last entry.       *)
DynamicTableAdd(f) == Newest(<<f>> \o dyn_table, Entries)

(* The ways to write f: the index of an entry, or a literal whose name is  *)
(* spelled out (index 0) or taken from an entry, to be added or not.       *)
Indices == 1 .. Len(Static) + Len(encoder)
Indexed == [how : {"indexed"}, index : Indices]
Literal == [how : {"literal"}, index : Indices \cup {0}, add : BOOLEAN]
Named(i) == {f.name : f \in ToSet(Entry(i))}
Writings(f) ==
  {w \in Indexed : Entry(w.index) = <<f>>}
    \cup {w \in Literal : w.index = 0 \/ f.name \in Named(w.index)}

Adds(w) == w.how = "literal" /\ w.add

(* http2_hpack_decode_string_buf. *)
Reads(v) == CASE v = "cut" -> {"clipped", "empty"}
              [] v = "huge" -> {"empty"}
              [] OTHER -> {v}

(* What parse_header makes of a writing: no field if the index leads       *)
(* nowhere, none either if a literal has no value (v: as it was read).     *)
Decoded(w, f, v) ==
  IF w.how = "indexed" THEN GetHeader(w.index)
  ELSE IF v = "empty" THEN <<>>
  ELSE LET name == IF w.index = 0 THEN <<f>> ELSE GetHeader(w.index)
       IN  [i \in DOMAIN name |-> [name[i] EXCEPT !.value = v]]

Meant(w, f, v) == IF w.how = "literal" /\ v = "empty" THEN <<>>
                  ELSE <<[f EXCEPT !.value = v]>>

(* Bound: a connection whose tables have parted is not followed further.   *)
BeginBlock ==
  /\ left = 0 /\ ~lost
  /\ left' \in 1 .. BlockLength
  /\ failed' = FALSE
  /\ UNCHANGED <<encoder, dyn_table, misread, lost>>

(* A dynamic table size update: the encoder evicts, the decoder reads the  *)
(* number and keeps what it has.                                           *)
Resize ==
  /\ left = 0 /\ ~lost
  /\ \E n \in 0 .. Len(encoder) - 1 : encoder' = Newest(encoder, n)
  /\ UNCHANGED <<dyn_table, left, failed, misread, lost>>

Encode(f, w) ==
  /\ left > 0
  /\ left' = left - 1
  /\ encoder' = IF Adds(w) THEN EncoderAdd(encoder, f) ELSE encoder

(* The client encodes a field and the server reads it; it is added even if *)
(* the request has no room for it and the block fails.                     *)
ReadField(f, w) ==
  /\ ~failed /\ Encode(f, w)
  /\ \E v \in Reads(f.value) :
       LET got == Decoded(w, f, v)
       IN  /\ misread' = (misread \/ got # Meant(w, f, v))
           /\ failed' = (f.value = "huge" \/ \E g \in ToSet(got) : g.value = "refused")
           /\ dyn_table' = IF Adds(w) /\ got # <<>> THEN DynamicTableAdd(Head(got))
                           ELSE dyn_table
  /\ lost' = (lost \/ (Adds(w) /\ f.value \in {"empty", "cut", "huge"}))

(* The rest of a block that failed is not read, whatever it adds.          *)
SkipField(f, w) ==
  /\ failed /\ Encode(f, w)
  /\ lost' = (lost \/ Adds(w))
  /\ UNCHANGED <<dyn_table, failed, misread>>

HpackNext ==
  \/ BeginBlock \/ Resize
  \/ \E f \in Field : \E w \in Writings(f) : ReadField(f, w) \/ SkipField(f, w)

HpackSpec == HpackInit /\ [][HpackNext]_hpackVars

-----------------------------------------------------------------------------
(* As long as every added field fits and no block fails before one, the    *)
(* entries the client counts on are the first of the server's table, so    *)
(* that each request is read as it was meant.                              *)
TablesInStep ==
  ~lost => IsPrefix(encoder, dyn_table) /\ ~misread
=============================================================================
