----------------------------- MODULE TextLayout -----------------------------
(***************************************************************************)
(* Where the text functions of BootApp.c put the glyphs of a text.         *)
(*                                                                         *)
(* A text is a sequence of glyphs, possibly with NewLine.  A font is an    *)
(* atlas: the advance of every glyph it has, the size of a glyph's cell,   *)
(* and the advance of a glyph it has not.  The plain, the setup title and  *)
(* the setup fonts are drawn by functions of the same shape; they differ   *)
(* in the font.                                                            *)
(***************************************************************************)
EXTENDS Integers, FiniteSetsExt, Sequences

CONSTANT NewLine

\* A font of DrawTextStringAtlas and MeasureTextStringAtlas: a glyph that is not
\* in the atlas is half a cell wide.
AtlasFont(advance, width, height) ==
  [advance |-> advance, width |-> width, height |-> height, fallback |-> width \div 2]

\* The font of DrawTextString, where it is 8 pixels wide.
PlainFont(advance, width, height) ==
  [AtlasFont(advance, width, height) EXCEPT !.fallback = 8]

Advance(font, glyph) ==
  IF glyph \in DOMAIN font.advance THEN font.advance[glyph] ELSE font.fallback

IsFont(font) ==
  /\ font.width \in Nat /\ font.height \in Nat /\ font.fallback \in Nat
  /\ \A glyph \in DOMAIN font.advance : font.advance[glyph] \in Nat

IsLine(text) ==
  /\ Len(text) \in Nat
  /\ \A i \in 1 .. Len(text) : text[i] # NewLine

\* The pen before each glyph and behind the last, from the start of the text:
\* a new line goes back to its left edge.
Pens(font, text) ==
  LET pen[i \in 1 .. Len(text) + 1] ==
        IF i = 1 THEN [x |-> 0, line |-> 0]
        ELSE IF text[i - 1] = NewLine THEN [x |-> 0, line |-> pen[i - 1].line + 1]
        ELSE [pen[i - 1] EXCEPT !.x = @ + Advance(font, text[i - 1])]
  IN  pen

\* The width of the longest line.
MeasureTextStringAtlas(font, text) ==
  LET pens == Pens(font, text)
  IN  Max({pens[i].x : i \in 1 .. Len(text) + 1})

\* The cells of the glyphs that are drawn, for a text at x, y: those the font has,
\* each a whole cell of the atlas, which may be wider than its advance.
GlyphBoxes(font, x, y, text) ==
  LET pens == Pens(font, text)
  IN  {[X |-> x + pens[i].x, Y |-> y + pens[i].line * font.height,
        Width |-> font.width, Height |-> font.height]
         : i \in {j \in 1 .. Len(text) : text[j] \in DOMAIN font.advance}}

\* DrawGradientOutlinedTextAtlas: how far into the text a glyph's middle is, in
\* 1/1024.
GlyphProgress(font, text, i) ==
  LET total == MeasureTextStringAtlas(font, text)
      center == Pens(font, text)[i].x + Advance(font, text[i]) \div 2
  IN  IF total > 0 THEN Min({1024, (center * 1024) \div total}) ELSE 0

=============================================================================
