------------------------------- MODULE Pgraph -------------------------------
(* The graphics engine of the NV2A: what pgraph_method does with a method   *)
(* that the puller hands to it, in the order the guest pushed them.  Most   *)
(* methods keep their parameter, or a part of it, in a field of a register  *)
(* or in a row of the constants of the vertex shader or of the lighting;    *)
(* the class of the object that is bound to the subchannel says which.      *)
(*                                                                          *)
(* A cell is 32 bits of state: a PGRAPH register, an element of a row, a    *)
(* variable of NV2APGRAPH, or a word of the data of the object bound to a   *)
(* subchannel, which the classes share: it is a union.  The dirty flags and *)
(* the caches of write enables, which nothing reads, are left out; the      *)
(* guest passes no value that the code asserts it never does.               *)
EXTENDS RegisterBits, Sequences

CONSTANTS
    Class,      \* the class of each object the guest has put in RAMIN, by its instance
    DmaAddress, \* the address of each DMA object there
    Last        \* bound: the last address of video memory

VARIABLES
    cells,    \* the cells that were written
    bound,    \* the instance bound to each subchannel
    vram
graphVars == <<cells, bound, vram>>

Surfaces2D == 98   \* NV_CONTEXT_SURFACES_2D
ImageBlit == 159   \* NV_IMAGE_BLIT
Kelvin == 151      \* NV_KELVIN_PRIMITIVE

GraphInit ==
    /\ cells = [c \in {} |-> {}]
    /\ bound = [sub \in 0..7 |-> 0]
    /\ vram = [a \in 0..Last |-> a]

Cell(c) == IF c \in DOMAIN cells THEN cells[c] ELSE {}

----------------------------------------------------------------------------
(* Rows: method m copies the bits from..to of its parameter to the bits     *)
(* lo..hi of a cell (GET_MASK, SET_MASK).                                   *)

Row(m, cell, from, to, lo, hi) ==
    [method |-> m, cell |-> cell, from |-> from, to |-> to, lo |-> lo, hi |-> hi]
PG(r) == <<"regs", r, 0>>
Word(i) == <<"object", 0, i>>
Whole(m, cell) == Row(m, cell, 0, 31, 0, 31)
Masked(m, r, lo, hi) == Row(m, PG(r), 0, 31, lo, hi)
Flag(m, r, b) == Masked(m, r, b, b)
Part(m, cell, from, to) == Row(m, cell, from, to, 0, 31)
Variable(m, name) == Whole(m, <<name, 0, 0>>)

Surfaces2DRows ==
    {Whole(\h184, Word(0)), Whole(\h188, Word(1)), Whole(\h300, Word(2)),
     Part(\h304, Word(3), 0, 15), Part(\h304, Word(4), 16, 31),
     Part(\h308, Word(5), 0, 26), Part(\h30C, Word(6), 0, 26)}
ImageBlitRows ==
    {Whole(\h19C, Word(0)), Whole(\h2FC, Word(1)),
     Part(\h300, Word(2), 0, 15), Part(\h300, Word(3), 16, 31),
     Part(\h304, Word(4), 0, 15), Part(\h304, Word(5), 16, 31),
     Part(\h308, Word(6), 0, 15), Part(\h308, Word(7), 16, 31)}

\* The DMA objects and the surfaces the engine draws to.
SurfaceRows ==
    {Whole(\h180, Word(0)), Whole(\h190, Word(1)), Whole(\h1A4, Word(2)),
     Variable(\h184, "dma_a"), Variable(\h188, "dma_b"),
     Variable(\h194, "dma_color"), Variable(\h198, "dma_zeta"),
     Variable(\h19C, "dma_vertex_a"), Variable(\h1A0, "dma_vertex_b"), Variable(\h1A8, "dma_report"),
     Part(\h200, <<"clip_x", 0, 0>>, 0, 15), Part(\h200, <<"clip_width", 0, 0>>, 16, 31),
     Part(\h204, <<"clip_y", 0, 0>>, 0, 15), Part(\h204, <<"clip_height", 0, 0>>, 16, 31),
     Part(\h208, <<"color_format", 0, 0>>, 0, 3), Part(\h208, <<"zeta_format", 0, 0>>, 4, 7),
     Part(\h208, <<"surface_type", 0, 0>>, 8, 11), Part(\h208, <<"anti_aliasing", 0, 0>>, 12, 15),
     Part(\h208, <<"log_width", 0, 0>>, 16, 23), Part(\h208, <<"log_height", 0, 0>>, 24, 31),
     Part(\h20C, <<"color_pitch", 0, 0>>, 0, 15), Part(\h20C, <<"zeta_pitch", 0, 0>>, 16, 31),
     Variable(\h210, "color_offset"), Variable(\h214, "zeta_offset")}

\* Registers of the Kelvin class, and their fields.
CONTROL_0 == \h194C
CONTROL_1 == \h1950
CONTROL_2 == \h1954
CONTROL_3 == \h1958
SETUPRASTER == \h1990
BLEND == \h1804
FOGCOLOR == \h1980
CSV0_D == \hFB4
CSV0_C == \hFB8
CSV1_B == \hFBC
CSV1_A == \hFC0

ControlRows ==
    {Whole(\h288, PG(\h1944)), Whole(\h28C, PG(\h1948))}     \* specular and fog combiners
    \cup {Whole(\h1B08 + 64 * slot, PG(\h19BC + 4 * slot)) : slot \in 0..3}   \* TEXADDRESS
    \cup {Row(\h290, PG(CONTROL_0), 0, 0, 25, 25),            \* stencil write
          Row(\h290, PG(SETUPRASTER), 12, 12, 29, 29),        \* z format
          Row(\h290, PG(CONTROL_0), 16, 16, 23, 23)}          \* z perspective
FogRows ==
    {Flag(\h2A4, CONTROL_3, 8),                           \* fog
          Row(\h2A8, PG(FOGCOLOR), 0, 7, 16, 23), Row(\h2A8, PG(FOGCOLOR), 8, 15, 8, 15),
          Row(\h2A8, PG(FOGCOLOR), 16, 23, 0, 7), Row(\h2A8, PG(FOGCOLOR), 24, 31, 24, 31)}
EnableRows ==
    {Flag(\h300, CONTROL_0, 12), Flag(\h304, BLEND, 3), Flag(\h308, SETUPRASTER, 28),
     Flag(\h30C, CONTROL_0, 14), Flag(\h310, CONTROL_0, 22), Flag(\h314, CSV0_C, 31),
     Masked(\h328, CSV0_D, 26, 28), Flag(\h32C, CONTROL_1, 0),
     Flag(\h330, SETUPRASTER, 6), Flag(\h334, SETUPRASTER, 7), Flag(\h338, SETUPRASTER, 8),
     Masked(\h33C, CONTROL_0, 8, 11), Masked(\h340, CONTROL_0, 0, 7)}
MaskRows ==
    {Whole(\h34C, PG(\h1808)),                                \* blend colour
     Masked(\h354, CONTROL_0, 16, 19),                         \* depth function
     Row(\h358, PG(CONTROL_0), 24, 24, 26, 26), Row(\h358, PG(CONTROL_0), 16, 16, 27, 27),
     Row(\h358, PG(CONTROL_0), 8, 8, 28, 28), Row(\h358, PG(CONTROL_0), 0, 0, 29, 29),
     Flag(\h35C, CONTROL_0, 24),                               \* depth mask
     Masked(\h360, CONTROL_1, 24, 31), Masked(\h364, CONTROL_1, 4, 7),
     Masked(\h368, CONTROL_1, 8, 15), Masked(\h36C, CONTROL_1, 16, 23)}
RasterRows ==
    {Whole(\h384, PG(\h1AA8)), Whole(\h388, PG(\h1AA4)),     \* polygon offset
     Whole(\h394, PG(\h1A90)), Whole(\h398, PG(\h1ABC)),     \* depth clip
     Flag(\h3A4, CSV0_C, 27), Masked(\h3BC, CSV0_D, 0, 15), Flag(\h9CC, CSV0_D, 20)}

\* Matrices and vectors: the parameters of consecutive methods fill consecutive elements.
Constants(m, row, i) == Whole(m, <<"vsh_constants", row, i>>)
Lighting(m, row, i) == Whole(m, <<"ltctxa", row, i>>)
\* Mutant of Matrices: the matrices follow each other with nothing in between.
Packed(m, row, count) ==
    {Constants(m + 64 * n + 4 * e, row + 4 * n + e \div 4, e % 4) : n \in 0..(count - 1), e \in 0..15}
Matrices(m, row, count) ==
    {Constants(m + 64 * n + 4 * e, row + 8 * n + e \div 4, e % 4) : n \in 0..(count - 1), e \in 0..15}
MatrixRows ==
    Matrices(\h440, \h04, 1) \cup Matrices(\h480, \h08, 4) \cup Matrices(\h580, \h0C, 4)
    \cup Matrices(\h680, \h00, 1) \cup Matrices(\h6C0, \h44, 4) \cup Matrices(\h840, \h40, 4)
VectorRows ==
    {Constants(\h9D0 + 4 * i, \h39, i) : i \in 0..3} \cup {Constants(\hA20 + 4 * i, \h3B, i) : i \in 0..3}
    \cup {Constants(\hA50 + 4 * i, \h38, i) : i \in 0..3} \cup {Constants(\hAF0 + 4 * i, \h3A, i) : i \in 0..3}
    \cup {Lighting(\h9C0 + 4 * i, \h15, i) : i \in 0..2} \cup {Lighting(\hA10 + 4 * i, \h11, i) : i \in 0..2}
    \cup {Whole(\h9C0 + 4 * i, PG(\h1984 + 4 * i)) : i \in 0..1}                \* FOGPARAM
CombinerRows ==
    UNION {{Whole(\h260 + 4 * i, PG(\h18C0 + 4 * i)), Whole(\hA60 + 4 * i, PG(\h1880 + 4 * i)),
            Whole(\hA80 + 4 * i, PG(\h18A0 + 4 * i)), Whole(\hAA0 + 4 * i, PG(\h18E0 + 4 * i)),
            Whole(\hAC0 + 4 * i, PG(\h1900 + 4 * i))} : i \in 0..7}

KelvinRows ==
    SurfaceRows \cup ControlRows \cup FogRows \cup EnableRows \cup MaskRows \cup RasterRows
    \cup MatrixRows \cup VectorRows \cup CombinerRows

Rows(class) == CASE class = Surfaces2D -> Surfaces2DRows
                 [] class = ImageBlit -> ImageBlitRows
                 [] class = Kelvin -> KelvinRows
                 [] OTHER -> {}

----------------------------------------------------------------------------
(* Choices: the parameter is one of some numbers, and each has a code.      *)

BlendFactor ==
    {<<0, 0>>, <<1, 1>>, <<\h8001, 12>>, <<\h8002, 13>>, <<\h8003, 14>>, <<\h8004, 15>>}
    \cup {<<\h300 + i, i + 2>> : i \in 0..8}
BlendEquation ==
    {<<\h800A, 0>>, <<\h800B, 1>>, <<\h8006, 2>>, <<\h8007, 3>>, <<\h8008, 4>>, <<\hF005, 5>>, <<\hF006, 6>>}
FogMode == {<<\h2601, 0>>, <<\h800, 1>>, <<\h801, 3>>, <<\h802, 5>>, <<\h803, 7>>, <<\h804, 4>>}
FogGenMode == {<<0, 0>>, <<1, 1>>, <<2, 2>>, <<3, 3>>, <<6, 4>>}
StencilOp == {<<\h1E00, 1>>, <<0, 2>>, <<\h1E01, 3>>, <<\h1E02, 4>>, <<\h1E03, 5>>, <<\h150A, 6>>,
              <<\h8507, 7>>, <<\h8508, 8>>}
PolygonMode == {<<\h1B00, 1>>, <<\h1B01, 2>>, <<\h1B02, 0>>}
CullFace == {<<\h404, 1>>, <<\h405, 2>>, <<\h408, 3>>}
FrontFace == {<<\h900, 0>>, <<\h901, 1>>}
\* The sphere map has two coordinates, the reflection and the normal map have three.
Texgen(channel) ==
    {<<0, 0>>, <<\h2400, 1>>, <<\h2401, 2>>}
    \cup (IF channel < 2 THEN {<<\h2402, 3>>} ELSE {})
    \cup (IF channel < 3 THEN {<<\h8512, 5>>, <<\h8511, 4>>} ELSE {})

Choice(m, r, lo, hi, codes) == [method |-> m, reg |-> r, lo |-> lo, hi |-> hi, codes |-> codes]
TexgenChoices ==
    {Choice(\h3C0 + 16 * slot + 4 * c, IF slot < 2 THEN CSV1_A ELSE CSV1_B,
            4 + 3 * c + 16 * (slot % 2), 6 + 3 * c + 16 * (slot % 2), Texgen(c)) : slot \in 0..3, c \in 0..3}
KelvinChoices ==
    {Choice(\h29C, CONTROL_3, 16, 18, FogMode), Choice(\h2A0, CSV0_D, 22, 24, FogGenMode),
     Choice(\h344, BLEND, 4, 7, BlendFactor), Choice(\h348, BLEND, 8, 11, BlendFactor),
     Choice(\h350, BLEND, 0, 2, BlendEquation),
     Choice(\h370, CONTROL_2, 0, 3, StencilOp), Choice(\h374, CONTROL_2, 4, 7, StencilOp),
     Choice(\h378, CONTROL_2, 8, 11, StencilOp),
     Choice(\h38C, SETUPRASTER, 0, 1, PolygonMode), Choice(\h390, SETUPRASTER, 2, 3, PolygonMode),
     Choice(\h39C, SETUPRASTER, 21, 22, CullFace), Choice(\h3A0, SETUPRASTER, 23, 23, FrontFace)}
    \cup TexgenChoices
Choices(class) == IF class = Kelvin THEN KelvinChoices ELSE {}

----------------------------------------------------------------------------
(* Settings.  A parameter is the set of its bits. *)

Shifted(bits, by) == {b + by : b \in bits}
Code(choice, p) == (CHOOSE x \in choice.codes : x[1] = Number(p))[2]
\* The enables of the texture matrices are booleans.
TextureMatrixEnable(m) == (m - \h420) \div 4
Truth(p) == IF p = {} THEN {} ELSE {0}

Of(sub, cell) == IF cell[1] = "object" THEN <<"object", sub, cell[3]>> ELSE cell
\* What method m of the class writes on the subchannel: the cells, the bits of them that change
\* and their values.
Writes(sub, class, m, p) ==
    {[cell |-> Of(sub, r.cell), mask |-> r.lo..r.hi,
      bits |-> Shifted(p \cap (r.from..r.to), r.lo - r.from) \cap (r.lo..r.hi)] :
        r \in {x \in Rows(class) : x.method = m}}
    \cup {[cell |-> PG(c.reg), mask |-> c.lo..c.hi,
           bits |-> Shifted(BitsOf(Code(c, p)), c.lo) \cap (c.lo..c.hi)] :
        c \in {x \in Choices(class) : x.method = m}}
    \cup {[cell |-> <<"texture_matrix_enable", TextureMatrixEnable(x), 0>>, mask |-> 0..31,
           bits |-> Truth(p)] :
        x \in {y \in {\h420, \h424, \h428, \h42C} : y = m /\ class = Kelvin}}

After(old, w) == (old \ w.mask) \cup w.bits
Write(writes) ==
    LET written == {w.cell : w \in writes}
        apply(old, c) == LET mine == {w \in writes : w.cell = c}
                             all == [cell |-> c, mask |-> UNION {w.mask : w \in mine},
                                     bits |-> UNION {w.bits : w \in mine}]
                         IN  IF mine = {} THEN old ELSE After(old, all)
    IN  cells' = [c \in DOMAIN cells \cup written |-> apply(Cell(c), c)]

----------------------------------------------------------------------------
(* The blit: the rows of a rectangle, from the first to the last.           *)

ClassOf(sub) == IF bound[sub] \in DOMAIN Class THEN Class[bound[sub]] ELSE 0
ObjectData(sub, i) == Cell(<<"object", sub, i>>)
\* lookup_graphics_object: the first subchannel the instance is bound to.
LookupGraphicsObject(instance) == CHOOSE s \in DOMAIN bound :
    bound[s] = instance /\ \A t \in DOMAIN bound : bound[t] = instance => s <= t

BytesPerPixel(format) == CASE format = 1 -> 1 [] format = 4 -> 2 [] format = 10 -> 4
Mapped(instance) == DmaAddress[instance]
CopyRow(mem, from, to, length) ==
    [a \in DOMAIN mem |-> IF a \in to..(to + length - 1) THEN mem[from + a - to] ELSE mem[a]]
\* Mutant of Blitted: the rows of the destination are as far apart as those of the source.
OnePitch(mem, source, dest, sourcePitch, destPitch, length, height) ==
    LET rows[y \in 0..height] == IF y = 0 THEN mem
            ELSE CopyRow(rows[y - 1], source + (y - 1) * sourcePitch, dest + (y - 1) * sourcePitch, length)
    IN  rows[height]
Blitted(mem, source, dest, sourcePitch, destPitch, length, height) ==
    LET rows[y \in 0..height] == IF y = 0 THEN mem
            ELSE CopyRow(rows[y - 1], source + (y - 1) * sourcePitch, dest + (y - 1) * destPitch, length)
    IN  rows[height]
\* NV09F_SIZE, with the size it sets.
Blit(sub, width, height) ==
    LET s == LookupGraphicsObject(Number(ObjectData(sub, 0)))
        w(i) == Number(ObjectData(s, i))
        b(i) == Number(ObjectData(sub, i))
        bytes == BytesPerPixel(w(2))
    IN  vram' = Blitted(vram, Mapped(w(0)) + w(5) + b(3) * w(3) + b(2) * bytes,
                        Mapped(w(1)) + w(6) + b(5) * w(4) + b(4) * bytes,
                        w(3), w(4), width * bytes, height)

----------------------------------------------------------------------------
(* pgraph_method. *)

\* NV_SET_OBJECT: the data of the object that was bound before stays.
SetObject(sub, instance) ==
    /\ bound' = [bound EXCEPT ![sub] = instance]
    /\ UNCHANGED <<cells, vram>>
SRCCOPY == {0, 1}
Method(sub, m, p) ==
    /\ Write(Writes(sub, ClassOf(sub), m, p))
    /\ IF ClassOf(sub) = ImageBlit /\ m = \h308 /\ ObjectData(sub, 1) = SRCCOPY
       THEN Blit(sub, Number(p), Number(Shifted(p \cap (16..31), -16)))
       ELSE UNCHANGED vram
    /\ UNCHANGED bound

\* The guest writes the frame buffer through its window.
WriteFrameBuffer(image) == vram' = image /\ UNCHANGED <<cells, bound>>
=============================================================================
