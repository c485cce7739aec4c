----------------------------- MODULE FjmFormat -----------------------------
(***************************************************************************)
(* The .fjm model files the exporters in scripts/ write, as positions: one *)
(* operator per exporter gives the header it packs and the byte at which   *)
(* it puts every part.  Weights are left out, only how many bytes they     *)
(* take is kept.                                                           *)
(*                                                                         *)
(* A model c has the fields layers, d, heads, kv, dHead, vocab and ffn.    *)
(* An image has                                                            *)
(*   header     the fields of the header,                                  *)
(*   weights    where a layer keeps its matrices, past its own header,     *)
(*   norms      where it keeps its norms,                                  *)
(*   books      where it keeps its seven codebooks, none if there are none,*)
(*   layerSize  the bytes of one layer, its header included,               *)
(*   embedBook, lmheadBook   the codebooks of embedding and LM head.       *)
(***************************************************************************)
EXTENDS Integers

None == -1                   \* the part is not in the file
LayerHeader == 16

CeilDiv(n, k) == (n + k - 1) \div k

(* Bytes of n indices of the given width, of a codebook, of n gammas.      *)
PackQuantized(n, bits) == CeilDiv(n, 8 \div bits)
SerializeCodebook(bits) == 8 * 2^bits
SerializeNorm(n) == 8 * n

(* Group-wise matrices: the indices, then a scale and a zero per group.    *)
Groups(n) == CeilDiv(n, 128)
SerializeMatrixV8(n) == CeilDiv(n, 2) + 4 * Groups(n) + Groups(n)
SerializeMatrixV9(n) == n + 4 * Groups(n) + Groups(n)

(* Elements of the matrices, from the shapes of the checkpoint.            *)
QElements(c) == c.d * (c.heads * c.dHead)
KvElements(c) == c.d * (c.kv * c.dHead)
OElements(c) == (c.heads * c.dHead) * c.d
FfnElements(c) == c.d * c.ffn
EmbedElements(c) == c.vocab * c.d

(* A layer: the matrices of b bytes each, the norms, then the codebooks.   *)
Qkvo(b) == b.q + b.k + b.v + b.o
Ffn(b) == b.gate + b.up + b.down
Weights(b) == [q |-> 0, k |-> b.q, v |-> b.q + b.k, o |-> b.q + b.k + b.v,
               gate |-> Qkvo(b), up |-> Qkvo(b) + b.gate,
               down |-> Qkvo(b) + b.gate + b.up]
TwoNorms(b, c) == LET n == Qkvo(b) + Ffn(b)
                  IN [attn |-> n, ffn |-> n + SerializeNorm(c.d)]
SixNorms(b, c) == LET n == Qkvo(b) + Ffn(b)
                      s == SerializeNorm(c.d)
                  IN [attn |-> n, postAttn |-> n + s, ffn |-> n + 2 * s,
                      postFfn |-> n + 3 * s, q |-> n + 4 * s,
                      k |-> n + 4 * s + SerializeNorm(c.dHead)]

(* All matrices of a layer packed with the same width.                     *)
Packed(c, bits) == [q |-> PackQuantized(QElements(c), bits),
                    k |-> PackQuantized(KvElements(c), bits),
                    v |-> PackQuantized(KvElements(c), bits),
                    o |-> PackQuantized(OElements(c), bits),
                    gate |-> PackQuantized(FfnElements(c), bits),
                    up |-> PackQuantized(FfnElements(c), bits),
                    down |-> PackQuantized(FfnElements(c), bits)]

----------------------------------------------------------------------------
(* The v4 header has room for two codebooks of four centroids: with fewer  *)
(* the fields behind them slide forward and the loader finds zeros there,  *)
(* with more the assertion on the length stops the export.                 *)
BuildV3Header(type, c, bits, at) ==
    [version |-> 4, modelType |-> type, layers |-> c.layers, d |-> c.d,
     heads |-> c.heads, dHead |-> c.dHead, vocab |-> c.vocab, bits |-> bits,
     total |-> at.total, embedOff |-> at.embed, layer0Off |-> at.layer0,
     lmheadOff |-> at.lmhead, kv |-> c.kv, ffnType |-> 1, ffn |-> c.ffn,
     finalNormOff |-> IF bits = 2 THEN at.finalNorm ELSE 0,
     embedBits |-> 0, lmheadBits |-> 0, quantFormat |-> 0]

(* Header, embedding, layers, final norm, LM head, one after the other.    *)
Sections(header, embedding, layers, layerSize, norm, lmhead) ==
    LET layer0 == header + embedding
        finalNorm == layer0 + layers * layerSize
    IN [embed |-> header, layer0 |-> layer0, finalNorm |-> finalNorm,
        lmhead |-> finalNorm + norm, total |-> finalNorm + norm + lmhead]

(* The same without an LM head: its offset is that of the embedding.       *)
TiedSections(header, embedding, layers, layerSize, norm) ==
    [Sections(header, embedding, layers, layerSize, norm, 0)
        EXCEPT !.lmhead = header]

(* A v4 file: two norms and seven codebooks a layer, the codebooks of      *)
(* embedding and LM head in the header.                                    *)
V4Image(type, c, bits) ==
    LET b == Packed(c, bits)
        booksAt == Qkvo(b) + Ffn(b) + 2 * SerializeNorm(c.d)
        size == LayerHeader + booksAt + 7 * SerializeCodebook(bits)
        embedding == PackQuantized(EmbedElements(c), bits)
        at == Sections(160, embedding, c.layers, size, SerializeNorm(c.d), embedding)
    IN [header |-> BuildV3Header(type, c, bits, at),
        weights |-> Weights(b), norms |-> TwoNorms(b, c), books |-> booksAt,
        layerSize |-> size, embedBook |-> 76,
        lmheadBook |-> 76 + SerializeCodebook(bits)]

(* export_fjm.py; of a model without a gate projection it makes no file,   *)
(* the branch for one reads the projection all the same.                   *)
ExportGemma3(type, c, bits) == V4Image(type, c, bits)

CreateTestModel(bits) ==
    LET c == [layers |-> 2, d |-> 16, heads |-> 4, kv |-> 1, dHead |-> 4,
              vocab |-> 64, ffn |-> 32]
    IN V4Image(0, c, bits)

(* export_smollm_v4.py                                                     *)
ExportSmollmV4(c, bits) == V4Image(1, c, bits)

----------------------------------------------------------------------------
(* A v5 or v6 file: the codebooks of embedding and LM head follow their    *)
(* indices, and each section has a width of its own.                       *)
InlineImage(version, c, layerBits, embedBits, lmheadBits) ==
    LET b == Packed(c, layerBits)
        booksAt == Qkvo(b) + Ffn(b) + 2 * SerializeNorm(c.d)
        size == LayerHeader + booksAt + 7 * SerializeCodebook(layerBits)
        embedding == PackQuantized(EmbedElements(c), embedBits)
        lmhead == PackQuantized(EmbedElements(c), lmheadBits)
        at == Sections(160, embedding + SerializeCodebook(embedBits), c.layers, size,
                       SerializeNorm(c.d), lmhead + SerializeCodebook(lmheadBits))
    IN [header |->
          [version |-> version, modelType |-> 1, layers |-> c.layers, d |-> c.d,
           heads |-> c.heads, dHead |-> c.dHead, vocab |-> c.vocab,
           bits |-> layerBits, total |-> at.total, embedOff |-> at.embed,
           layer0Off |-> at.layer0, lmheadOff |-> at.lmhead, kv |-> c.kv,
           ffnType |-> 1, ffn |-> c.ffn, finalNormOff |-> at.finalNorm,
           embedBits |-> embedBits, lmheadBits |-> lmheadBits, quantFormat |-> 0],
        weights |-> Weights(b), norms |-> TwoNorms(b, c), books |-> booksAt,
        layerSize |-> size, embedBook |-> at.embed + embedding,
        lmheadBook |-> at.lmhead + lmhead]

ExportSmollmV5(c, layerBits, embedBits, lmheadBits) ==
    InlineImage(5, c, layerBits, embedBits, lmheadBits)
ExportSmollmV6(c, layerBits, embedBits, lmheadBits) ==
    InlineImage(6, c, layerBits, embedBits, lmheadBits)

----------------------------------------------------------------------------
(* The fields of a Gemma 3 header; the LM head is tied to the embedding.   *)
GemmaHeader(version, c, bits, embedBits, lmheadBits, quantFormat, at) ==
    [version |-> version, modelType |-> 10, layers |-> c.layers, d |-> c.d,
     heads |-> c.heads, dHead |-> c.dHead, vocab |-> c.vocab, bits |-> bits,
     total |-> at.total, embedOff |-> at.embed, layer0Off |-> at.layer0,
     lmheadOff |-> at.lmhead, kv |-> c.kv, ffnType |-> 1, ffn |-> c.ffn,
     finalNormOff |-> at.finalNorm, embedBits |-> embedBits,
     lmheadBits |-> lmheadBits, quantFormat |-> quantFormat]

(* export_gemma3_v7.py: six norms a layer, codebooks behind them.          *)
ExportGemma3V7(c, layerBits, embedBits) ==
    LET b == Packed(c, layerBits)
        norms == 4 * SerializeNorm(c.d) + 2 * SerializeNorm(c.dHead)
        booksAt == Qkvo(b) + Ffn(b) + norms
        size == LayerHeader + booksAt + 7 * SerializeCodebook(layerBits)
        embedding == PackQuantized(EmbedElements(c), embedBits)
        at == TiedSections(176, embedding + SerializeCodebook(embedBits), c.layers,
                           size, SerializeNorm(c.d))
    IN [header |-> GemmaHeader(7, c, layerBits, embedBits, layerBits, 0, at),
        weights |-> Weights(b), norms |-> SixNorms(b, c), books |-> booksAt,
        layerSize |-> size, embedBook |-> at.embed + embedding,
        lmheadBook |-> at.embed + embedding]

(* export_gemma3_v8.py and _v9.py: group-wise, no codebook anywhere.       *)
GroupedImage(c, b, embedding, bits) ==
    LET norms == 4 * SerializeNorm(c.d) + 2 * SerializeNorm(c.dHead)
        size == LayerHeader + Qkvo(b) + Ffn(b) + norms
        at == TiedSections(176, embedding, c.layers, size, SerializeNorm(c.d))
    IN [header |-> GemmaHeader(8, c, bits, bits, bits, 1, at),
        weights |-> Weights(b), norms |-> SixNorms(b, c), books |-> None,
        layerSize |-> size, embedBook |-> None, lmheadBook |-> None]

GroupedV8(c) ==
    LET kv == SerializeMatrixV8(KvElements(c))
        f == SerializeMatrixV8(FfnElements(c))
    IN [q |-> SerializeMatrixV8(QElements(c)), k |-> kv, v |-> kv,
        o |-> SerializeMatrixV8(OElements(c)), gate |-> f, up |-> f, down |-> f]
ExportGemma3V8(c) ==
    GroupedImage(c, GroupedV8(c), SerializeMatrixV8(EmbedElements(c)), 4)

GroupedV9(c) ==
    LET kv == SerializeMatrixV9(KvElements(c))
        f == SerializeMatrixV9(FfnElements(c))
    IN [q |-> SerializeMatrixV9(QElements(c)), k |-> kv, v |-> kv,
        o |-> SerializeMatrixV9(OElements(c)), gate |-> f, up |-> f, down |-> f]
ExportGemma3V9(c) ==
    GroupedImage(c, GroupedV9(c), SerializeMatrixV9(EmbedElements(c)), 8)

----------------------------------------------------------------------------
(* mdl_parse_header: what the kernel makes of the header h of any version. *)

\* Mutant: the longer header of v7 is expected of v5 and v6 too.
HeaderSizeFromV5(h) == IF h.version >= 5 THEN 176 ELSE IF h.version >= 3 THEN 160
                       ELSE IF h.version >= 2 THEN 96 ELSE 64

HeaderSize(h) == IF h.version >= 7 THEN 176 ELSE IF h.version >= 3 THEN 160
                 ELSE IF h.version >= 2 THEN 96 ELSE 64
MaxLayers == 32
MaxDModel == 2048
MaxVocab == 262144
HeaderAccepted(h) ==
    /\ h.version \in 1 .. 9
    /\ h.layers \in 1 .. MaxLayers /\ h.d \in 1 .. MaxDModel /\ h.heads \in 1 .. 64
    /\ h.vocab \in 1 .. MaxVocab /\ h.bits \in 1 .. 8
    /\ h.total >= HeaderSize(h)
    /\ \A off \in {h.embedOff, h.layer0Off, h.lmheadOff} :
          HeaderSize(h) <= off /\ off < h.total
============================================================================
