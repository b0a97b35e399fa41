-------------------------------- MODULE Sniff --------------------------------
(***************************************************************************)
(* Which format a file has, by its bytes or by its extension               *)
(* (src/sniff.rs).                                                         *)
(*                                                                         *)
(* Bytes are a sequence of tokens: a signature, a part of one, a character *)
(* of white space or of markup, or any other run of bytes ("data").  No    *)
(* signature is the beginning of another one, so the order in which        *)
(* detect tries them does not matter.                                      *)
(***************************************************************************)
EXTENDS Naturals, Sequences

CONSTANT Probe   (* how many tokens the 512 bytes hold that svg is sought in *)

ASSUME SniffAssumption == Probe \in Nat

Nothing == "none"

KnownFormat ==
  {"png", "jpeg", "gif", "webp", "tiff", "bmp", "ico", "tga", "qoi", "exr",
   "pnm", "dds", "jxl", "svg"}

(* The format of an extension or a signature in a table, if it is there. *)
Lookup(table, name) ==
  IF \E f \in KnownFormat : name \in table[f]
  THEN CHOOSE f \in KnownFormat : name \in table[f]
  ELSE Nothing

Extensions ==
  [png |-> {"png", "apng"}, jpeg |-> {"jpg", "jpeg", "jpe", "jfif"},
   gif |-> {"gif"}, webp |-> {"webp"}, tiff |-> {"tif", "tiff"},
   bmp |-> {"bmp", "dib"}, ico |-> {"ico", "cur"},
   tga |-> {"tga", "icb", "vda", "vst"}, qoi |-> {"qoi"}, exr |-> {"exr"},
   pnm |-> {"pbm", "pgm", "ppm", "pnm", "pam"}, dds |-> {"dds"},
   jxl |-> {"jxl"}, svg |-> {"svg", "svgz"}]

(* KnownFormat::from_extension, of an extension in lower case *)
from_extension(ext) == Lookup(Extensions, ext)
-----------------------------------------------------------------------------
(* The formats that a first token alone gives away. *)
Signatures ==
  [[f \in KnownFormat |-> {}] EXCEPT
     !["png"] = {"\\x89PNG\\r\\n\\x1a\\n"}, !["jpeg"] = {"\\xff\\xd8\\xff"},
     !["gif"] = {"GIF87a", "GIF89a"}, !["tiff"] = {"II*\\0", "MM\\0*"},
     !["ico"] = {"\\0\\0\\x01\\0", "\\0\\0\\x02\\0"}, !["qoi"] = {"qoif"},
     !["exr"] = {"\\x76\\x2f\\x31\\x01"}, !["dds"] = {"DDS "},
     !["jxl"] = {"\\xff\\x0a", "\\0\\0\\0\\x0cJXL \\r\\n\\x87\\n"}]

White == {" ", "\t", "\r", "\n"}

starts_with(buf, prefix) == buf # <<>> /\ buf[1] = prefix

(* RIFF, four bytes of length, WEBP *)
is_webp(buf) == Len(buf) >= 3 /\ buf[1] = "RIFF" /\ buf[3] = "WEBP"

(* BM, and the twelve bytes more that a file header has *)
is_bmp(buf) == Len(buf) >= 2 /\ buf[1] = "BM"

is_pnm(buf) ==
  /\ Len(buf) >= 2
  /\ buf[1] \in {"P1", "P2", "P3", "P4", "P5", "P6", "P7"}
  /\ buf[2] \in White

strip_leading_whitespace(b) ==
  LET ink == {i \in 1..Len(b) : b[i] \notin White}
  IN  IF ink = {} THEN <<>>
      ELSE SubSeq(b, CHOOSE i \in ink : \A j \in ink : i <= j, Len(b))

starts_with_svg_open_tag(b) ==
  Len(b) >= 2 /\ b[1] = "<svg" /\ b[2] \in White \cup {">", "/"}

find_svg_open_tag(haystack) ==
  \E i \in 1..Len(haystack) :
    starts_with_svg_open_tag(SubSeq(haystack, i, Len(haystack)))

looks_like_svg(buf) ==
  LET head  == SubSeq(buf, 1, IF Len(buf) < Probe THEN Len(buf) ELSE Probe)
      plain == IF starts_with(head, "byte order mark") THEN Tail(head) ELSE head
      probe == strip_leading_whitespace(plain)
  IN  IF starts_with(probe, "<?xml") THEN find_svg_open_tag(probe)
      ELSE starts_with_svg_open_tag(probe)

detect(buf) ==
  CASE is_webp(buf)        -> "webp"
    [] is_bmp(buf)         -> "bmp"
    [] is_pnm(buf)         -> "pnm"
    [] looks_like_svg(buf) -> "svg"
    [] OTHER -> IF buf = <<>> THEN Nothing ELSE Lookup(Signatures, buf[1])
=============================================================================
