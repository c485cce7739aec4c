---------------------------- MODULE ModelLoader ----------------------------
(***************************************************************************)
(* From exporter to inference: a host script writes model files to a disk, *)
(* the kernel reads the header of one, streams its embedding and layers    *)
(* from NVMe or loads them all to RAM, and runs forward passes.  A read    *)
(* may fail after any number of NVMe commands.                             *)
(*                                                                         *)
(* A buffer is described by the file and the byte it was filled from.     *)
(***************************************************************************)
EXTENDS FjmFormat

CONSTANTS
    Images,        \* name -> a file some exporter writes
    Lbas,          \* where they are written
    DiskSectors,   \* sectors of the disk
    ReadMax,       \* sectors one NVMe command reads (128)
    RamMax,        \* bytes from RAM_LAYERS_BASE to the end of the mapping
    MaxWrites,     \* bound: writes to the disk
    NoImage, Torn  \* an empty sector or buffer; a buffer of mixed contents

VARIABLES
    disk,      \* sector -> the file it holds a part of, and which part
    writes,    \* number of images written
    model,     \* the file whose header is in MDL_HDR_BASE
    src,       \* MDL_ST_SRC_ADDR
    embed,     \* MDL_ST_STREAM_EMBED, the embedding and the final norm
    books,     \* MDL_EMBED_CB, MDL_EMBED_CB_V5, MDL_LMHEAD_CB, MDL_LMHEAD_CB_V5
    layer,     \* MDL_ST_STREAM_LAYER and STREAM_LAYER_BUF
    ram,       \* MDL_RAM_ACTIVE, the layers and the LM head in RAM, MDL_RAM_TIED
    pass       \* the layer a forward pass is at, None between passes

kernelVars == <<model, src, embed, books, layer, ram, pass>>
vars == <<disk, writes, kernelVars>>

----------------------------------------------------------------------------
(* What the loader computes from the fields h of a header.                 *)
NKvHeads(h) == IF h.kv > 0 THEN h.kv ELSE h.heads
EmbedBits(h) == IF h.embedBits > 0 THEN h.embedBits ELSE h.bits
LmheadBits(h) == IF h.lmheadBits > 0 THEN h.lmheadBits ELSE h.bits
FfnDim(h) == IF h.ffn > 0 THEN h.ffn ELSE h.d * 4
IsGroupwise(h) == h.version >= 8 /\ h.quantFormat = 1
Tied(h) == h.lmheadOff = h.embedOff

\* Mutant: the layers are taken to reach to the LM head.
LayerBlockToHead(h) == (h.lmheadOff - h.layer0Off) \div h.layers

LayerBlockSize(h) ==
    ((IF h.finalNormOff > 0 THEN h.finalNormOff ELSE h.lmheadOff) - h.layer0Off)
        \div h.layers
LayerOff(h, l) == h.layer0Off + l * LayerBlockSize(h) + LayerHeader

MatrixSize(h, m, n) ==
    IF IsGroupwise(h)
    THEN (IF EmbedBits(h) = 8 THEN m * n ELSE (m * n) \div 2)
            + ((m * n + 127) \div 128) * 5
    ELSE ((m * n) * h.bits) \div 8
QSize(h) == MatrixSize(h, h.d, h.heads * h.dHead)

\* Mutant: keys and values are given all heads.
KvSizeAllHeads(h) == MatrixSize(h, h.d, h.heads * h.dHead)

KvSize(h) == MatrixSize(h, h.d, NKvHeads(h) * h.dHead)
OSize(h) == MatrixSize(h, h.heads * h.dHead, h.d)
QkvTotal(h) == QSize(h) + KvSize(h) * 2 + OSize(h)
FfnTotal(h) == (IF h.ffnType = 1 THEN 3 ELSE 2) * MatrixSize(h, h.d, FfnDim(h))
NormAddr(h) == QkvTotal(h) + FfnTotal(h)
CodebookAddr(h) == NormAddr(h) + 2 * h.d * 8

(* Where a layer is read, counted from the start of its buffer.            *)
WeightAddrs(h) == LET mat == MatrixSize(h, h.d, FfnDim(h)) IN
    [q |-> 0, k |-> QSize(h), v |-> QSize(h) + KvSize(h),
     o |-> QSize(h) + KvSize(h) * 2,
     gate |-> QkvTotal(h), up |-> QkvTotal(h) + mat, down |-> QkvTotal(h) + mat * 2]
GemmaNorms(h) == h.modelType \in {10, 11}
NormAddrs(h) == LET n == NormAddr(h) IN
    IF GemmaNorms(h)
    THEN [attn |-> n, postAttn |-> n + h.d * 8, ffn |-> n + 2 * h.d * 8,
          postFfn |-> n + 3 * h.d * 8, q |-> n + 4 * h.d * 8,
          k |-> n + 4 * h.d * 8 + h.dHead * 8]
    ELSE [attn |-> n, ffn |-> n + h.d * 8]

InlineBooks(h) == h.version >= 5 /\ ~IsGroupwise(h)
EmbedBookOff(h) == h.embedOff + (h.vocab * h.d * EmbedBits(h)) \div 8
LmheadBookOff(h) == h.lmheadOff + (h.vocab * h.d * LmheadBits(h)) \div 8

----------------------------------------------------------------------------
Header(img) == Images[img].header

Sector(s) == IF s \in DOMAIN disk THEN disk[s] ELSE NoImage

(* The sectors of the file that bytes at .. at + size - 1 lie in, and what *)
(* reading them from the disk yields.                                      *)
Span(at, size) == (at \div 512) .. ((at + size - 1) \div 512)
Read(lba, at, size) ==
    LET first == Sector(lba + at \div 512) IN
    IF first # NoImage
       /\ \A s \in Span(at, size) : Sector(lba + s) = [img |-> first.img, part |-> s]
    THEN [img |-> first.img, at |-> at]
    ELSE Torn

(* What a buffer may hold once a read into it has failed: with no command  *)
(* done its old contents, else a mixture, unless the bytes were the same.  *)
AfterFailure(old, lba, at, size) ==
    {old} \cup (IF CeilDiv(size + (at % 512), 512) > ReadMax /\ old # Read(lba, at, size)
                THEN {Torn} ELSE {})

(* What the machine boots with.                                            *)
NoEmbed == [loaded |-> FALSE, buf |-> NoImage, norm |-> NoImage]
NoBooks == [embed |-> NoImage, embed5 |-> NoImage,
            lmhead |-> NoImage, lmhead5 |-> NoImage]
NoLayer == [number |-> None, buf |-> NoImage]
NoRam == [active |-> FALSE, layers |-> NoImage, lmhead |-> NoImage, tied |-> FALSE]

Init ==
    /\ disk = [s \in 0 .. DiskSectors - 1 |-> NoImage] /\ writes = 0
    /\ model = NoImage /\ src = 0 /\ embed = NoEmbed /\ books = NoBooks
    /\ layer = NoLayer /\ ram = NoRam
    /\ pass = None

(* write_to_disk, on the host: the machine is off, and boots with nothing  *)
(* in memory.  Images are written over one another without a warning.      *)
WriteToDisk(img, lba) ==
    /\ pass = None /\ writes < MaxWrites
    /\ writes' = writes + 1
    /\ disk' = [s \in DOMAIN disk |->
                  IF s - lba \in 0 .. CeilDiv(Images[img].header.total, 512) - 1
                  THEN [img |-> img, part |-> s - lba] ELSE disk[s]]
    /\ model' = NoImage /\ src' = 0 /\ embed' = NoEmbed /\ books' = NoBooks
    /\ layer' = NoLayer /\ ram' = NoRam
    /\ UNCHANGED pass
----------------------------------------------------------------------------

(* model-load nvme <lba>: a header that is refused changes nothing; v3 and *)
(* v4 codebooks are copied out of the header.                              *)
HasHeader(lba) == Sector(lba) # NoImage /\ Sector(lba).part = 0
HeaderBooks(img) ==
    IF Header(img).version \in 3 .. 4
    THEN [books EXCEPT !.embed = [img |-> img, at |-> 76],
                       !.lmhead = [img |-> img, at |-> 108]]
    ELSE books

\* Mutants: what comes next is read behind the sector of the header, the
\* embedding of the last model still counts as loaded, or its layer does.
ModelLoadBehind(lba) ==
    /\ pass = None
    /\ HasHeader(lba) /\ HeaderAccepted(Header(Sector(lba).img))
    /\ books' = HeaderBooks(Sector(lba).img)
    /\ model' = Sector(lba).img /\ src' = lba + 1
    /\ embed' = [embed EXCEPT !.loaded = FALSE]
    /\ layer' = [layer EXCEPT !.number = None]
    /\ UNCHANGED <<disk, writes, ram, pass>>

ModelLoadKeepsEmbed(lba) ==
    /\ pass = None
    /\ HasHeader(lba) /\ HeaderAccepted(Header(Sector(lba).img))
    /\ books' = HeaderBooks(Sector(lba).img)
    /\ model' = Sector(lba).img /\ src' = lba
    /\ layer' = [layer EXCEPT !.number = None]
    /\ UNCHANGED <<disk, writes, embed, ram, pass>>

ModelLoadKeepsLayer(lba) ==
    /\ pass = None
    /\ HasHeader(lba) /\ HeaderAccepted(Header(Sector(lba).img))
    /\ books' = HeaderBooks(Sector(lba).img)
    /\ model' = Sector(lba).img /\ src' = lba
    /\ embed' = [embed EXCEPT !.loaded = FALSE]
    /\ UNCHANGED <<disk, writes, layer, ram, pass>>

ModelLoad(lba) ==
    /\ pass = None
    /\ HasHeader(lba) /\ HeaderAccepted(Header(Sector(lba).img))
    /\ model' = Sector(lba).img /\ src' = lba
    /\ books' = HeaderBooks(Sector(lba).img)
    /\ embed' = [embed EXCEPT !.loaded = FALSE]
    /\ layer' = [layer EXCEPT !.number = None]
    /\ UNCHANGED <<disk, writes, ram, pass>>

(* embed-load, and the final norm after it; a norm that cannot be read is  *)
(* not reported.                                                           *)
EmbedSize(h) == h.layer0Off - h.embedOff
EmbedLoad ==
    LET h == Header(model)
        book == Read(src, EmbedBookOff(h), SerializeCodebook(EmbedBits(h)))
    IN /\ pass = None /\ model # NoImage
       /\ \E norm \in (IF h.finalNormOff = 0 THEN {embed.norm}
                       ELSE {Read(src, h.finalNormOff, h.d * 8)}
                            \cup AfterFailure(embed.norm, src, h.finalNormOff, h.d * 8)) :
             embed' = [loaded |-> TRUE, norm |-> norm,
                       buf |-> Read(src, h.embedOff, EmbedSize(h))]
       /\ books' = IF ~InlineBooks(h) THEN books
                   ELSE IF EmbedBits(h) <= 2 THEN [books EXCEPT !.embed = book]
                   ELSE [books EXCEPT !.embed5 = book]
       /\ UNCHANGED <<disk, writes, model, src, layer, ram, pass>>

EmbedLoadFails ==
    /\ pass = None /\ model # NoImage
    /\ \E buf \in AfterFailure(embed.buf, src, Header(model).embedOff,
                               EmbedSize(Header(model))) :
          embed' = [embed EXCEPT !.buf = buf]
    /\ UNCHANGED <<disk, writes, model, src, books, layer, ram, pass>>
----------------------------------------------------------------------------
(* mdl_stream_load_layer.  The number is stored last: a failed command, or *)
(* a failed read of the layer's own header, leaves the old one.            *)
LayerSpan(l) == LayerOff(Header(model), l)
LayerBytes == LayerBlockSize(Header(model)) - LayerHeader
LayerLoaded(l) ==
    layer' = [number |-> l, buf |-> Read(src, LayerSpan(l), LayerBytes)]
LayerNotLoaded(l) ==
    \E buf \in AfterFailure(layer.buf, src, LayerSpan(l), LayerBytes)
               \cup {Read(src, LayerSpan(l), LayerBytes)} :
        layer' = [layer EXCEPT !.buf = buf]

(* layer-load <n>                                                          *)
LayerLoad(l) ==
    /\ pass = None /\ model # NoImage /\ l < Header(model).layers
    /\ \/ LayerLoaded(l)
       \/ LayerNotLoaded(l)
    /\ UNCHANGED <<disk, writes, model, src, embed, books, ram, pass>>

(* ram-load: all layers, then the LM head unless it is tied.  Nothing ever *)
(* clears MDL_RAM_ACTIVE.                                                  *)
RamBytes(h) == h.layers * LayerBlockSize(h)
HeadBytes(h) == IF Tied(h) THEN 0 ELSE h.total - h.lmheadOff

\* Mutant: a tied LM head keeps the codebook it had.
HeadBooksUntied(h) ==
    LET book == Read(src, LmheadBookOff(h), SerializeCodebook(LmheadBits(h)))
    IN IF ~InlineBooks(h) \/ Tied(h) THEN books
       ELSE IF LmheadBits(h) > 2 THEN [books EXCEPT !.lmhead5 = book]
       ELSE [books EXCEPT !.lmhead = book]

HeadBooks(h) ==
    LET wide == LmheadBits(h) > 2
        wideEmbed == EmbedBits(h) > 2
        book == Read(src, LmheadBookOff(h), SerializeCodebook(LmheadBits(h)))
    IN IF ~InlineBooks(h) THEN books
       ELSE IF ~Tied(h) THEN IF wide THEN [books EXCEPT !.lmhead5 = book]
                             ELSE [books EXCEPT !.lmhead = book]
       ELSE IF wideEmbed THEN [books EXCEPT !.lmhead5 = books.embed5]
       ELSE [books EXCEPT !.lmhead = books.embed5]

RamLoad ==
    LET h == Header(model) IN
    /\ pass = None /\ model # NoImage /\ embed.loaded
    /\ RamBytes(h) + HeadBytes(h) <= RamMax
    /\ ram' = [active |-> TRUE, tied |-> Tied(h),
               layers |-> Read(src, h.layer0Off, RamBytes(h)),
               lmhead |-> IF Tied(h) THEN embed.buf
                          ELSE Read(src, h.lmheadOff, HeadBytes(h))]
    /\ books' = HeadBooks(h)
    /\ UNCHANGED <<disk, writes, model, src, embed, layer, pass>>

RamLoadFails ==
    LET h == Header(model)
        layers == Read(src, h.layer0Off, RamBytes(h))
    IN
    /\ pass = None /\ model # NoImage /\ embed.loaded
    /\ \/ ram' = ram
       \/ /\ RamBytes(h) + HeadBytes(h) <= RamMax
          /\ \/ \E buf \in AfterFailure(ram.layers, src, h.layer0Off, RamBytes(h)),
                   head \in {ram.lmhead} \cup (IF ram.tied THEN {} ELSE {Torn}) :
                   ram' = [ram EXCEPT !.layers = buf, !.lmhead = head]
             \/ /\ ~Tied(h)
                /\ \E head \in {ram.lmhead} \cup (IF ram.tied THEN {} ELSE {Torn}) :
                      ram' = [ram EXCEPT !.layers = layers, !.lmhead = head]
    /\ UNCHANGED <<disk, writes, model, src, embed, books, layer, pass>>
----------------------------------------------------------------------------
(* A forward pass: layer 0 is loaded for its codebook, a failure ends the  *)
(* pass; a layer that cannot be loaded is left out.                        *)
BeginPass ==
    /\ pass = None /\ model # NoImage /\ embed.loaded
    /\ \/ /\ ram.active \/ layer.number = 0
          /\ pass' = 0 /\ UNCHANGED layer
       \/ /\ ~ram.active /\ layer.number # 0
          /\ \/ LayerLoaded(0) /\ pass' = 0
             \/ LayerNotLoaded(0) /\ pass' = None
    /\ UNCHANGED <<disk, writes, model, src, embed, books, ram>>

RunLayer ==
    /\ pass # None /\ pass < Header(model).layers
    /\ \/ /\ ram.active \/ layer.number = pass
          /\ UNCHANGED layer
       \/ /\ ~ram.active /\ layer.number # pass
          /\ \/ LayerLoaded(pass)
             \/ LayerNotLoaded(pass)
    /\ pass' = pass + 1
    /\ UNCHANGED <<disk, writes, model, src, embed, books, ram>>

EndPass ==
    /\ pass # None /\ pass = Header(model).layers
    /\ pass' = None
    /\ UNCHANGED <<disk, writes, model, src, embed, books, layer, ram>>

Next ==
    \/ \E img \in DOMAIN Images, lba \in Lbas : WriteToDisk(img, lba)
    \/ \E lba \in Lbas : ModelLoad(lba)
    \/ EmbedLoad \/ EmbedLoadFails
    \/ \E l \in 0 .. 31 : LayerLoad(l)
    \/ RamLoad \/ RamLoadFails
    \/ BeginPass \/ RunLayer \/ EndPass

Spec == Init /\ [][Next]_vars

----------------------------------------------------------------------------
(* What a buffer may hold.                                                 *)
Contents == [img : DOMAIN Images, at : Nat] \cup {NoImage, Torn}

(* Type invariant: the state is made of what the loader stores.            *)
TypeOK ==
    /\ disk \in [0 .. DiskSectors - 1 -> [img : DOMAIN Images, part : Nat] \cup {NoImage}]
    /\ writes \in 0 .. MaxWrites
    /\ model \in DOMAIN Images \cup {NoImage} /\ src \in Lbas \cup {0}
    /\ embed \in [loaded : BOOLEAN, buf : Contents, norm : Contents]
    /\ books \in [embed : Contents, embed5 : Contents,
                  lmhead : Contents, lmhead5 : Contents]
    /\ layer \in [number : {None} \cup 0 .. 31, buf : Contents]
    /\ ram \in [active : BOOLEAN, layers : Contents, lmhead : Contents, tied : BOOLEAN]
    /\ pass \in {None} \cup 0 .. 32

(* Every file an exporter writes is one mdl_parse_header accepts: version, *)
(* ranges of the dimensions, and all offsets past the header the loader    *)
(* takes for that version and before the end.                              *)
HeadersAccepted ==
    \A lba \in Lbas : HasHeader(lba) => HeaderAccepted(Header(Sector(lba).img))

(* The sizes the loader derives are those of the file: the distance of the *)
(* layers it finds between two header offsets is the exporter's layer      *)
(* size, and the codebooks of embedding and LM head that follow their      *)
(* indices are where it computes them.                                     *)
SectionsOf(img) ==
    LET h == Images[img].header IN
    /\ LayerBlockSize(h) = Images[img].layerSize
    /\ InlineBooks(h) => /\ EmbedBookOff(h) = Images[img].embedBook
                         /\ LmheadBookOff(h) = Images[img].lmheadBook
SectionsFound == model # NoImage => SectionsOf(model)

(* Inside a layer the forward pass addresses every matrix, and every norm  *)
(* of a file with as many norms as the model type has, where the exporter  *)
(* put it.                                                                 *)
NormsComplete(img) == GemmaNorms(Images[img].header) <=> "q" \in DOMAIN Images[img].norms
PartsOf(img) ==
    LET h == Images[img].header IN
    /\ WeightAddrs(h) = Images[img].weights
    /\ NormsComplete(img) => NormAddrs(h) = Images[img].norms
LayerPartsFound == model # NoImage => PartsOf(model)

(* Every layer's codebooks are found behind its norms: "norm_size =        *)
(* 2 * d_model * 8  // 2 norms" for every model the exporters write.       *)
BooksFound ==
    model # NoImage /\ Images[model].books # None
        => CodebookAddr(Header(model)) = Images[model].books

----------------------------------------------------------------------------
(* All of the loaded file is on the disk, nothing was written over it.     *)
Whole == /\ model # NoImage
         /\ \A s \in 0 .. CeilDiv(Header(model).total, 512) - 1 :
               Sector(src + s) = [img |-> model, part |-> s]
Of(at) == [img |-> model, at |-> at]

(* The codebooks the lookups of the forward pass read.                     *)
EmbedBook(b) == IF Header(model).version >= 5 /\ EmbedBits(Header(model)) = 4
                THEN b.embed5 ELSE b.embed
LmheadBook(b) == IF Header(model).version >= 5 /\ LmheadBits(Header(model)) = 4
                 THEN b.lmhead5 ELSE b.lmhead

(* Once the embedding counts as loaded, the buffer and the codebook that a *)
(* lookup reads are those of the loaded model, whatever was loaded before, *)
(* however often loads failed, and wherever the header keeps the codebook. *)
EmbedServed ==
    embed.loaded /\ Whole =>
        /\ embed.buf = Of(Header(model).embedOff)
        /\ ~IsGroupwise(Header(model))
              => EmbedBook(books) = Of(Images[model].embedBook)

(* A ram-load that succeeds leaves the layers, the LM head and the         *)
(* codebook the LM head is read with of the loaded model in place.         *)
RamServed ==
    [][RamLoad /\ Whole =>
        /\ ram'.layers = Of(Header(model).layer0Off)
        /\ ram'.lmhead = Of(Header(model).lmheadOff)
        /\ ~IsGroupwise(Header(model))
              => LmheadBook(books') = Of(Images[model].lmheadBook)]_vars

(* As long as a layer counts as loaded, nothing of another model is in the *)
(* layer buffer, a failed load may only have mixed layers of this one.     *)
StreamOwnModel ==
    layer.number # None /\ Whole => \/ layer.buf = Torn
                                    \/ \E at \in {layer.buf.at} : layer.buf = Of(at)
============================================================================
