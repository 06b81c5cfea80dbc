--------------------------- MODULE ThjRefinement ---------------------------
(***************************************************************************)
(* The bytes of ThjDriver implement the lines of Thj6264, the driver that  *)
(* WeaveSystem is composed with.                                           *)
(***************************************************************************)
EXTENDS ThjDriver

AllOf(byte) == [k \in 1..Width |-> byte]

(* The line of the pattern file that some bytes are.  What the driver      *)
(* itself leaves in the SRAM counts as such, be it a line of the file too. *)
LineOf(bytes) ==
    IF bytes = AllOf(0) THEN -1                         \* Blank
    ELSE IF bytes # AllOf(TestByte)
            /\ \E d \in DOMAIN LineData : LineData[d] = bytes
    THEN CHOOSE d \in DOMAIN LineData : LineData[d] = bytes
    ELSE -2                                             \* Noise

Lines == {LineOf(LineData[d]) : d \in DOMAIN LineData}

Stored(buf, line) == [k \in 1..Width |-> sram[Base(buf, line) + k - 1]]

(* A line goes out in pairs of bytes: one more than Width when it is odd.  *)
Woven(bytes) ==
    IF Len(bytes) = Width + (Width % 2)
    THEN LineOf(SubSeq(bytes, 1, Width))
    ELSE -2

SramLines == [b \in 0..NBuf-1 |->
                 [l \in 0..MaxLines-1 |-> LineOf(Stored(b, l))]]

WovenRows == [n \in DOMAIN rows |-> Woven(rows[n])]

(* A line is long enough for the test of send_line that asks for the wrong *)
(* number (thj.c:427) never to find a rest, and its length is neither the  *)
(* one that the memory test leaves nor next to it.                         *)
ASSUME LinesAssumption ==
    /\ Width > 2 /\ MaxLines <= Width + 1
    /\ Width + 1 < TestByte * (ByteSize + 1)

Driver == INSTANCE Thj6264 WITH
    LengthSize <- ByteSize * ByteSize,
    hm6264 <- SramLines,
    data_length <- read_data_length,
    carpet <- WovenRows

(* The lines do not overlap each other nor the length register, the        *)
(* register keeps both of its bytes, and send_line hands the loom the very *)
(* bytes of the line it is asked for, in one step as far as anybody can    *)
(* see (thj.c:417-439, 801-819).                                           *)
LinesImplemented ==
    Driver!DriverInit /\ [][Driver!DriverNext(Lines)]_(Driver!driverVars)

=============================================================================
