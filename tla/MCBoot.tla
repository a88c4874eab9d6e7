------------------------------- MODULE MCBoot --------------------------------
EXTENDS Boot, TLC

Screen(type, addr, bpp) ==
  [type |-> type, addr |-> addr, w |-> 4, h |-> 3, bpp |-> bpp]

End == [type |-> 0, size |-> 8, fb |-> NoFb]

Tag(type, size, screen_found) ==
  [type |-> type, size |-> size, fb |-> screen_found]

(* A tag of a length that is no multiple of eight before the framebuffer,  *)
(* and a second framebuffer behind it; text, which comes first; no         *)
(* framebuffer but one behind the end; and one of too few bits.            *)
Graphic ==
  (0 :> Tag(1, 9, NoFb)) @@ (16 :> Tag(8, 38, Screen(1, 1, 32)))
  @@ (56 :> Tag(8, 38, Screen(1, 2, 16))) @@ (96 :> End)
Text   == (0 :> Tag(8, 32, Screen(2, 3, 16))) @@ (32 :> End)
NoTag  == (0 :> Tag(4, 16, NoFb)) @@ (16 :> End)
          @@ (24 :> Tag(8, 38, Screen(1, 1, 32))) @@ (64 :> End)
Shallow == (0 :> Tag(8, 38, Screen(1, 1, 8))) @@ (40 :> End)

(* Two buses of two devices with two functions.  Sparse has a device whose *)
(* second function does not count, one that is not there but for its       *)
(* second function, and one with both.                                     *)
Sparse  == {<<0, 0, 0>>, <<0, 0, 1>>, <<0, 1, 1>>, <<1, 1, 0>>, <<1, 1, 1>>}
All     == (0..1) \X (0..1) \X (0..1)
Devices == (0..1) \X (0..1)

Found_(good, tags, answering, several) ==
  [magic |-> good, info |-> tags, present |-> answering, multi |-> several]

MCStarts ==
  { Found_(FALSE, Graphic, {}, {}),
    Found_(TRUE, Graphic, Sparse, {<<0, 1>>, <<1, 1>>}),
    Found_(TRUE, Text, All, Devices),
    Found_(TRUE, NoTag, All, {<<0, 1>>}),
    Found_(TRUE, Shallow, {}, Devices) }
=============================================================================
