----------------------------- MODULE MCPixelPath ----------------------------
(* Small frames with every orientation, and drawings in every byte order. *)
EXTENDS PixelPath

(* Rows without padding, as the decoders make them, all bytes different. *)
Painted(w, h, f) ==
  LET row == w * BytesPerPixel(f)
  IN  [width |-> w, height |-> h, stride |-> row, format |-> f, len |-> row * h,
       data |-> [o \in 0..row * h - 1 |-> (10 * o + 7) % 256]]

Tight(w, h, f, bytes) ==
  [width |-> w, height |-> h, stride |-> w * BytesPerPixel(f), format |-> f,
   len |-> Len(bytes), data |-> [o \in 0..Len(bytes) - 1 |-> bytes[o + 1]]]

(* EXIF as a camera writes it: a directory at offset 8, with an entry before
   the orientation or none. *)
Two(v, big) == IF big THEN <<v \div 256, v % 256>> ELSE <<v % 256, v \div 256>>
Four(v, big) == IF big THEN <<0, 0>> \o Two(v, big) ELSE Two(v, big) \o <<0, 0>>
Entry(tag, v, big) ==
  Two(tag, big) \o Two(3, big) \o Four(1, big) \o Two(v, big) \o <<0, 0>>
Directory(count, entries, big) ==
  (IF big THEN BigEndian ELSE LittleEndian) \o Four(8, big) \o Two(count, big) \o entries

Blob(v, big, others) ==
  LET before == IF others THEN Entry(271, 6, big) ELSE <<>>
      after == IF others THEN Entry(274, 3, big) ELSE <<>>
  IN  Directory(IF others THEN 3 ELSE 1, before \o Entry(274, v, big) \o after, big)

(* Nothing can be read in these. *)
Malformed == {<<>>, <<73, 73, 42, 0, 8>>, <<73, 73, 0, 42>> \o Four(8, FALSE),
              LittleEndian \o Four(9, FALSE), LittleEndian \o Four(200, FALSE),
              Directory(2, Entry(274, 6, FALSE), FALSE),
              Directory(1, Entry(275, 6, TRUE), TRUE)}

Photo(t, exif, tag) ==
  [width |-> t.width, height |-> t.height, texture |-> t, exif |-> exif,
   tag |-> tag, svg |-> FALSE]

Photos ==
  {Photo(Painted(2, 3, "G8"), Blob(v, TRUE, TRUE), v) : v \in 1..8}
  \cup {Photo(Painted(3, 2, "G16"), ExifPrefix \o Blob(v, FALSE, FALSE), v) : v \in 1..8}
  \cup {Photo(Painted(1, 2, "R8G8B8"), Blob(v, FALSE, TRUE), v) : v \in 5..8}
  \cup {Photo(Painted(2, 1, "R8G8B8A8"), Blob(v, TRUE, FALSE), 1) : v \in {0, 9}}
  \cup {Photo(Painted(1, 2, "G8A8"), blob, 1) : blob \in Malformed}

(* A column of these has about as many bytes as the stride of a texture can
   say: 56, 64 and 72, of 64. *)
Tall ==
  {Photo(Painted(1, 7, "R16G16B16A16"), Blob(6, TRUE, FALSE), 6)}
  \cup {Photo(Painted(1, 8, "R16G16B16A16"), Blob(v, TRUE, FALSE), v) : v \in {3, 6}}
  \cup {Photo(Painted(1, 9, "R16G16B16A16"), Blob(5, TRUE, FALSE), 5)}

(* A frame of an animation that covers only a part of the image. *)
Part == [Photo(Painted(1, 2, "G8"), Blob(6, TRUE, FALSE), 6) EXCEPT !.width = 2, !.height = 3]

(* Opaque, half transparent, faint and invisible pixels. *)
Shades == <<255, 0, 128, 255,   200, 100, 50, 128,   9, 250, 77, 1,   0, 0, 0, 0>>
Vector == [Photo(Tight(2, 2, "R8G8B8A8", Shades), <<>>, 1) EXCEPT !.svg = TRUE]

MCFiles == Photos \cup Tall \cup {Part, Vector}

MCAccepts == {{}, {"G8A8", "G8"}, {"B8G8R8", "A8R8G8B8"}, {"R8G8B8", "G16"},
              {"B8G8R8A8", "R8G8B8A8_PRE"}, {"A8B8G8R8"}, {"G8", UnknownBit}}

MCDrawings ==
  {Tight(1, 2, f, <<40, 80, 120, 160, 9, 8, 7, 255>>) :
     f \in {"R8G8B8A8_PRE", "B8G8R8A8_PRE", "A8B8G8R8"}}
  \cup {Tight(1, 2, "A8R8G8B8_PRE", <<128, 127, 1, 64, 0, 0, 0, 0>>),
        Tight(1, 2, "G8A8_PRE", <<3, 7, 0, 0>>),
        Tight(4, 1, "A8R8G8B8", Shades),
        Tight(2, 1, "B8G8R8A8", Shades),
        Tight(3, 2, "G8", <<1, 2, 3, 4, 5>>),
        Tight(4, 2, "B8G8R8", <<1, 2, 3, 4, 5, 6, 7, 8, 9, 10, 11, 12>>),
        [Tight(2, 2, "G8", <<1, 2, 3, 4>>) EXCEPT !.stride = 1],
        Tight(1, 1, "R32G32B32A32_FLOAT", Shades)}
=============================================================================
