----------------------------- MODULE Tokenizer -----------------------------
(***************************************************************************)
(* scripts/export_tokenizer.py writes a vocabulary as a .fjt file, to a    *)
(* file or to the sectors of a disk; kernel/compute/tokenizer.fj loads it  *)
(* from RamFS or NVMe and encodes and decodes text with it.                *)
(*                                                                         *)
(* A byte is a number below NBytes (256), a token a sequence of bytes.     *)
(***************************************************************************)
EXTENDS Integers, Sequences
LOCAL INSTANCE TLC

CONSTANTS
    Vocabs,          \* name -> the tokens of a vocabulary, by token id
    Texts,           \* what is encoded
    NBytes,          \* byte values, and tokens the encoder takes for bytes
    MaxTokenBytes,   \* FJT_MAX_TOKEN_BYTES (15)
    HeaderCells, SectorCells,   \* entries (16 bytes) a header, a sector takes
    DiskCells,       \* entries the disk has room for
    RamVocab, NvmeVocab,        \* largest vocabularies (65536, 262200)
    MaxOutput        \* TOK_MAX_OUTPUT (2048)

Byte == 0 .. NBytes - 1
ASSUME TokAssumption ==
    /\ NBytes \in Nat \ {0} /\ MaxTokenBytes \in Nat \ {0} /\ MaxOutput \in Nat
    /\ Texts \subseteq Seq(Byte)
    /\ \A name \in DOMAIN Vocabs : Vocabs[name] \in Seq(Seq(Byte))

VARIABLES
    ramFile,    \* the vocabulary of the .fjt file in RamFS
    tokDisk,    \* the entries of the disk, and the vocabulary of the header
    tokMode,    \* TOK_M_MODE and the vocabulary the table was loaded from
    table,      \* the token table, by token id
    encoded     \* what cmd_tokenize is at, or did last: the text, the tokenizer,
                \* the ids, where in the text each begins and the rest does, and
                \* how many of them are decoded, to what

tokVars == <<ramFile, tokDisk, tokMode, table, encoded>>

NoVocab == "none"
AtBoot == [bpe |-> FALSE, name |-> NoVocab, from |-> "boot"]
NotEncoded == [text |-> <<>>, with |-> AtBoot, ids |-> <<>>, starts |-> <<1>>,
               shown |-> 0, back |-> <<>>]
Bytewise == [i \in 1 .. NBytes |-> <<i - 1>>]

(* A token is cut to the length an entry holds.                            *)
Truncated(t) == IF Len(t) > MaxTokenBytes THEN SubSeq(t, 1, MaxTokenBytes) ELSE t

\* Mutant: the tokens are sorted, long ones first.
BuildFjtSorted(name) ==
    LET Longer(t, u) == Len(t) > Len(u)
        tokens == SortSeq(Vocabs[name], Longer)
    IN [i \in DOMAIN tokens |-> Truncated(tokens[i])]

(* build_fjt: the entry at position i is token i.                          *)
BuildFjt(name) == [i \in DOMAIN Vocabs[name] |-> Truncated(Vocabs[name][i])]
MaxLen(name) ==
    LET lengths == {Len(BuildFjt(name)[i]) : i \in DOMAIN Vocabs[name]}
    IN CHOOSE n \in lengths : \A m \in lengths : m <= n

TokInit ==
    /\ ramFile = NoVocab /\ tokDisk = [name |-> NoVocab, cells |-> [i \in 1 .. DiskCells |-> <<>>]]
    /\ tokMode = AtBoot
    /\ table = Bytewise /\ encoded = NotEncoded
----------------------------------------------------------------------------
Pos == encoded.starts[Len(encoded.ids) + 1]
Encoding == Pos <= Len(encoded.text) /\ Len(encoded.ids) < MaxOutput
Decoding == ~Encoding /\ encoded.shown < Len(encoded.ids)
Prompt == ~Encoding /\ ~Decoding     \* the shell waits for a command

(* On the host: -o and a copy to RamFS, or write_to_disk, which fills the  *)
(* last sector with zeros and leaves what is behind it.                    *)
SaveFile(name) ==
    /\ Prompt /\ ramFile' = name
    /\ UNCHANGED <<tokDisk, tokMode, table, encoded>>

WriteToDisk(name) ==
    LET used == HeaderCells + Len(Vocabs[name])
        sectors == (used + SectorCells - 1) \div SectorCells
        Cell(i) == IF i <= HeaderCells THEN <<NBytes>>    \* no token
                   ELSE IF i <= used THEN BuildFjt(name)[i - HeaderCells] ELSE <<>>
    IN /\ Prompt
       /\ tokDisk' = [name |-> name,
                      cells |-> [i \in 1 .. DiskCells |->
                                   IF i <= sectors * SectorCells THEN Cell(i)
                                   ELSE tokDisk.cells[i]]]
       /\ UNCHANGED <<ramFile, tokMode, table, encoded>>

(* tok-load <file.fjt>, tok-load nvme <lba>: a vocabulary that is too      *)
(* large, frames that are short and a read that fails leave everything.    *)
TokLoadFjt ==
    /\ Prompt /\ ramFile # NoVocab
    /\ Len(Vocabs[ramFile]) \in 1 .. RamVocab /\ MaxLen(ramFile) \in 1 .. MaxTokenBytes
    /\ table' = BuildFjt(ramFile)
    /\ tokMode' = [bpe |-> TRUE, name |-> ramFile, from |-> "ramfs"]
    /\ UNCHANGED <<ramFile, tokDisk, encoded>>

(* The entries are read from the sector after the header.                  *)
TokLoadNvme ==
    /\ Prompt /\ tokDisk.name # NoVocab
    /\ Len(Vocabs[tokDisk.name]) \in 1 .. NvmeVocab
    /\ table' = [i \in DOMAIN Vocabs[tokDisk.name] |-> tokDisk.cells[SectorCells + i]]
    /\ tokMode' = [bpe |-> TRUE, name |-> tokDisk.name, from |-> "nvme"]
    /\ UNCHANGED <<ramFile, tokDisk, encoded>>

(* tok-reset: tok_init.                                                    *)
TokReset ==
    /\ Prompt /\ table' = Bytewise
    /\ tokMode' = AtBoot
    /\ UNCHANGED <<ramFile, tokDisk, encoded>>
----------------------------------------------------------------------------
(* tokenize <text>: encoded from front to back, then decoded.              *)
Tokenize(text) ==
    /\ Prompt
    /\ encoded' = [NotEncoded EXCEPT !.text = text, !.with = tokMode]
    /\ UNCHANGED <<ramFile, tokDisk, tokMode, table>>

(* Of the tokens beyond the bytes, those the rest of the text begins with, *)
(* and the longest of them, the first of several.                          *)
Rest == SubSeq(encoded.text, Pos, Len(encoded.text))
Matches == {i \in DOMAIN table :
              /\ i > NBytes /\ Len(table[i]) \in 1 .. MaxTokenBytes
              /\ Len(table[i]) <= Len(Rest)
              /\ \A k \in DOMAIN table[i] : table[i][k] = Rest[k]}
Longest == CHOOSE i \in Matches :
              \A j \in Matches : \/ Len(table[j]) < Len(table[i])
                                 \/ Len(table[j]) = Len(table[i]) /\ i <= j

EmitId(id, length) ==
    /\ encoded' = [encoded EXCEPT !.ids = Append(@, id), !.starts = Append(@, Pos + length)]
    /\ UNCHANGED <<ramFile, tokDisk, tokMode, table>>
EncodeMatch ==
    /\ Encoding /\ tokMode.bpe /\ Matches # {}
    /\ EmitId(Longest - 1, Len(table[Longest]))
EncodeByte ==     \* the byte itself
    /\ Encoding /\ (tokMode.bpe => Matches = {})
    /\ EmitId(encoded.text[Pos], 1)

TokDecode(id) == IF id + 1 \in DOMAIN table THEN table[id + 1] ELSE <<>>
DecodeToken ==
    /\ Decoding
    /\ encoded' = [encoded EXCEPT !.shown = @ + 1,
                                  !.back = @ \o TokDecode(encoded.ids[encoded.shown + 1])]
    /\ UNCHANGED <<ramFile, tokDisk, tokMode, table>>

TokNext ==
    \/ \E name \in DOMAIN Vocabs : SaveFile(name) \/ WriteToDisk(name)
    \/ TokLoadFjt \/ TokLoadNvme \/ TokReset
    \/ \E text \in Texts : Tokenize(text)
    \/ EncodeMatch \/ EncodeByte \/ DecodeToken

TokSpec == TokInit /\ [][TokNext]_tokVars
----------------------------------------------------------------------------
(* A vocabulary whose first tokens are the bytes, as --test writes it, and *)
(* what ids stand for in it, to the model that was trained with it.        *)
BytesFirst(name) == /\ Len(Vocabs[name]) >= NBytes
                    /\ \A i \in 1 .. NBytes : Vocabs[name][i] = Bytewise[i]
Meaning(id, name) == Truncated(Vocabs[name][id + 1])
Piece(i) == SubSeq(encoded.text, encoded.starts[i], encoded.starts[i + 1] - 1)
Faithful(from) ==
    LET with == encoded.with
        n == Len(encoded.ids)
    IN Prompt /\ with.from = from /\ (with.bpe => BytesFirst(with.name)) =>
        /\ encoded.starts[1] = 1 /\ encoded.back = SubSeq(encoded.text, 1, Pos - 1)
        /\ n < MaxOutput => encoded.back = encoded.text
        /\ \A i \in 1 .. n : /\ encoded.starts[i] < encoded.starts[i + 1]
                            /\ with.bpe => Meaning(encoded.ids[i], with.name) = Piece(i)

(* Text that is encoded and decoded comes back, cut only where the output  *)
(* is full, and the ids stand for its pieces, one after the other, in the  *)
(* exported vocabulary: with too long tokens and tokens that begin alike   *)
(* among them, whatever was loaded before, for every vocabulary that       *)
(* begins with the bytes.                                                  *)
TextComesBack == Faithful("ramfs") /\ Faithful("boot")

(* The same of a vocabulary loaded from the disk: "`nova> tok-load nvme    *)
(* 2000` loads tokenizer", then "`tokenize hello` produces correct IDs".   *)
DiskIdsCorrect == Faithful("nvme")
============================================================================
