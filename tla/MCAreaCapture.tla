--------------------------- MODULE MCAreaCapture ----------------------------
(***************************************************************************)
(* Small instances of AreaCapture: areas of up to two by two pixels in     *)
(* rows with and without padding, bytes 0 .. 3, sums of four bits.  The    *)
(* padding and the alpha byte are 3, so that reading them shows.           *)
(***************************************************************************)
EXTENDS AreaCapture

MCByte == 3
MCWord == 16
MCUninit == {0}
MCConfigs == {<<>>, <<3, 1, 5, 3>>, <<3, 1>>}

\* A buffer whose pixel (i, j) has byte p[i, j] in every channel but the third,
\* which has its complement.
Buffer(w, h, stride, p) ==
  [w |-> w, h |-> h, stride |-> stride,
   out |-> [n \in 0..(4 * stride * h - 1) |->
              LET j == n \div (4 * stride)
                  i == (n % (4 * stride)) \div 4
              IN  IF i >= w \/ n % 4 = 3 THEN MCByte
                  ELSE IF n % 4 = 2 THEN MCByte - p[<<i, j>>] ELSE p[<<i, j>>]]]

MCFrame ==
  UNION {{Buffer(s[1], s[2], s[3], p) : p \in [(0..(s[1] - 1)) \X (0..(s[2] - 1)) -> {0, 1, 3}]} :
           s \in {<<1, 1, 1>>, <<2, 1, 2>>, <<1, 2, 2>>}}
  \cup {Buffer(2, 2, s, p) : s \in {2, 3}, p \in [(0..1) \X (0..1) -> {0, 3}]}
=============================================================================
