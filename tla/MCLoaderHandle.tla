--------------------------- MODULE MCLoaderHandle ---------------------------
(***************************************************************************)
(* LoaderHandle on a small instance: two threads, two loader handles, two  *)
(* limits and an option.                                                   *)
(***************************************************************************)
EXTENDS LoaderHandle, TLC

MCFile(is, bytes, extension) ==
  [readable |-> TRUE, is |-> is, bytes |-> bytes, extension |-> extension]

Png == "\\x89PNG\\r\\n\\x1a\\n"
Cursor == "\\0\\0\\x02\\0"

(* A png, bytes that nothing names, and a path that cannot be read. *)
MCFiles ==
  {MCFile("png", <<Png, "data">>, "png"),
   MCFile(Nothing, <<"data">>, Nothing),
   [MCFile(Nothing, <<>>, "png") EXCEPT !.readable = FALSE]}

(* An uncompressed true-color tga, whose header is also that of a cursor file,
   a run-length encoded one, and a buffer with either. *)
MCTgaFiles ==
  {MCFile("tga", <<Cursor, "data">>, "tga"), MCFile("tga", <<"data">>, "tga"),
   MCFile("tga", <<Cursor, "data">>, Nothing), MCFile("tga", <<"data">>, Nothing)}

(* What the tests of src/sniff.rs expect of bytes that a first token does not
   give away, and the longest beginning that svg is sought in. *)
ASSUME SniffTests ==
  /\ detect(<<"RIFF", "data", "WEBP", "data">>) = "webp"
  /\ detect(<<"RIFF", "data", "WAVE", "data">>) = Nothing
  /\ detect(<<"BM", "data">>) = "bmp"
  /\ detect(<<"P1", "\n">>) = "pnm" /\ detect(<<"P1", " ">>) = "pnm"
  /\ detect(<<"P0", " ">>) = Nothing /\ detect(<<"P8", " ">>) = Nothing
  /\ detect(<<"<svg", "/", ">">>) = "svg" /\ detect(<<"<svg", " ">>) = "svg"
  /\ detect(<<" ", "\n", "<svg", " ">>) = "svg"
  /\ detect(<<"<?xml", "data", "<svg", "/">>) = "svg"
  /\ detect(<<"byte order mark", "<svg", "/">>) = "svg"
  /\ detect(<<"<?xml", "data", "<html", "/">>) = Nothing
  /\ detect(<<"<svg", "data">>) = Nothing
  /\ detect(<<>>) = Nothing /\ detect(<<"data">>) = Nothing
  /\ detect(<<"<?xml", "data", "data", "<svg", "/">>) = Nothing
  /\ from_extension("jpg") = "jpeg" /\ from_extension("tga") = "tga"
  /\ from_extension("xyz") = Nothing

MCSymmetry == Permutations(Threads) \cup Permutations(LoaderBoxes)
=============================================================================
