--------------------------- MODULE MCBootScreens ---------------------------
(***************************************************************************)
(* Instance of BootScreens for TLC.  Screens around every size at which a  *)
(* margin, a width or the icon's height changes its rule, the smallest     *)
(* that fit, some that do not, and common modes, all in one pixel format;  *)
(* the other formats on one screen.  Images and texts have the sizes of    *)
(* the repository's assets: a glyph is named by its advance in the Ubuntu  *)
(* fonts, and a second font is wider.                                      *)
(***************************************************************************)
EXTENDS BootScreens

MCWidths == {95, 96, 97, 359, 361} \cup (406 .. 409) \cup (767 .. 769)
            \cup {599, 600, 601, 640, 800, 1024, 1095, 1096, 1097, 1280, 1366, 1920, 3840}

MCHeights == {87, 88, 89, 252, 253} \cup (368 .. 371) \cup (615 .. 617)
             \cup (639 .. 641) \cup {480, 600, 720, 768, 781, 783, 1080, 2160}

Mode(format, red, green, blue) == [PixelFormat |-> format, Masks |-> <<red, green, blue>>]

MCModes == {Mode("BGR8", {}, {}, {}), Mode("OTHER", {}, {}, {}),
            Mode("BIT_MASK", 11 .. 15, 5 .. 10, 0 .. 4),
            Mode("BIT_MASK", 20 .. 29, 10 .. 19, 0 .. 9),
            Mode("BIT_MASK", {31}, 16 .. 23, 8 .. 15),
            Mode("BIT_MASK", 0 .. 7, 8 .. 15, {})}

Ubuntu == AtlasFont([g \in 4 .. 40 |-> g], 40, 56)
Wider == AtlasFont([g \in 7 .. 30 |-> g + 10], 40, 56)

Display(w, h, m, values, f) ==
  [width |-> w, height |-> h, mode |-> m, alphas |-> values, font |-> f]

MCDisplays ==
  {Display(w, h, Mode("RGB8", {}, {}, {}), {255}, Ubuntu) : w \in MCWidths, h \in MCHeights}
  \cup {Display(w, 720, Mode("RGB8", {}, {}, {}), {255}, Wider) : w \in {1280, 1920, 3840}}
  \cup {Display(1280, 720, m, {0, 1, 100, 254}, Ubuntu) : m \in MCModes}

MCTitleText == <<33, 19, 25, 27, 27, 26, 11, 35, 26, 11, 26, 26, 20, 26, 27>>
MCPromptText == <<23, 14, 13, 10, 6, 19, 15, 14, 7, 15, 6, 12, 15, 14, 6, 7, 7, 13, 14, 6, 10,
                  15, 6, 15, 15, 6, 19, 7, 10, 14, 6, 18, 10, 13, 14, 15, 14, 6, 19, 13, 10>>
MCInstallText == <<7, 14, 11, 10, 13, 7, 7>>
MCTryText == <<14, 10, 12>>
MCNoteText == [i \in 1 .. 65 |-> 4 + (i % 7)]

MCTitleFont == AtlasFont([g \in 4 .. 72 |-> g], 72, 96)
MCNoteFont == PlainFont([g \in 4 .. 24 |-> g], 24, 32)
=============================================================================
