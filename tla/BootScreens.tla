----------------------------- MODULE BootScreens -----------------------------
(***************************************************************************)
(* What EfiMain and RunKernelMouseLoop of BootApp.c draw from the first    *)
(* clear to the complete setup scene, on any screen and in any graphics    *)
(* mode: the splash sequence, the loader's lines, and the setup screen     *)
(* with its panel, title, icon, prompt, buttons and note.                  *)
(*                                                                         *)
(* A drawing is the box it covers, for images and texts alike.  In         *)
(* addition one pixel of the title is followed through the clears, the     *)
(* outline passes and the glyph drawn over them, in the mode's format.     *)
(***************************************************************************)
EXTENDS SetupLayout, PixelFormat, TextLayout

CONSTANTS
  Displays,      \* graphics modes, each with the font and the alpha values looked at
  SPLASH_WIDTH, SPLASH_HEIGHT,           \* the generated images
  SETUP_ICON_WIDTH, SETUP_ICON_HEIGHT,
  TitleText, PromptText, InstallText, TryText, NoteText,
  TitleFont, NoteFont,                   \* the generated atlases
  OutlinePasses                          \* bound: outline passes over one pixel

ASSUME ImageAssumption ==
  /\ {SPLASH_WIDTH, SPLASH_HEIGHT, SETUP_ICON_WIDTH, SETUP_ICON_HEIGHT}
       \subseteq Nat \ {0}
  /\ \A d \in Displays : d.alphas \subseteq 0 .. 255
  /\ OutlinePasses \in Nat

\* The icon is at least two pixels wide at the least height it is drawn in.
ASSUME IconAssumption == 2 * SETUP_ICON_HEIGHT <= 200 * SETUP_ICON_WIDTH

\* The atlases are fonts, and the texts of the setup screen are lines.
ASSUME FontAssumption ==
  /\ IsFont(TitleFont) /\ IsFont(NoteFont) /\ \A d \in Displays : IsFont(d.font)
  /\ \A text \in {TitleText, PromptText, InstallText, TryText, NoteText} : IsLine(text)

\* What the positions in DrawSetupScreen take for granted of the assets: the cells
\* are not higher than the rows between title and icon, prompt and buttons, and note
\* and edge; title and note fit into the narrowest panel of a roomy screen, a label
\* into the narrowest button, and the icon beside the prompt.
ASSUME AssetsAssumption ==
  /\ TitleFont.height <= 109 /\ NoteFont.height <= 34
  /\ MeasureTextStringAtlas(TitleFont, TitleText) + 2 * TitleFont.width + 8 <= 896
  /\ MeasureTextStringAtlas(NoteFont, NoteText) + NoteFont.width + 34 <= 896
  /\ 420 * SETUP_ICON_WIDTH <= 380 * SETUP_ICON_HEIGHT
  /\ \A d \in Displays :
       /\ d.font.width <= 48 /\ d.font.height <= 58
       /\ \A text \in {InstallText, TryText} :
            MeasureTextStringAtlas(d.font, text) + 2 * d.font.width <= 240

VARIABLES
  step,           \* how far the boot is
  mode,           \* FRAMEBUFFER_INFO: format and masks
  alphas,         \* of the glyph pixels followed
  uiFont,         \* the atlas the build made
  MouseDetected,
  frame,          \* of PlaySplashSequence
  drawn,          \* the splash pictures drawn since the last clear
  pixel, ink,     \* the pixel followed, and the colour last drawn on it
  passes,         \* outline passes made
  channel, shift  \* of MaskShift, which DecomposePixel calls for each channel

display == <<mode, alphas, uiFont>>
search == <<channel, shift>>
screenVars == <<step, display, MouseDetected, frame, drawn, pixel, ink, passes, search>>
bootVars == <<vars, screenVars>>

Black == <<0, 0, 0>>

-----------------------------------------------------------------------------
(* The splash sequence.                                                    *)

frameCount == 30

\* Mutant: the picture shrinks towards its end.
ScaleShrinking(eased) == (1024 * (1024 - eased) + 975 * eased) \div 1024

Scale1024(eased) == (975 * (1024 - eased) + 1024 * eased) \div 1024

\* gTweenCubicOut, which EvaluateTween(2, 1, ...) reads: the cube in 1/1024,
\* rounded (TweenTableBuilder).
EvaluateTween(progress1024) ==
  LET rest == 1024 - Min({progress1024, 1024})
  IN  (1024 * 1048576 - rest * rest * rest + 524288) \div 1048576

\* A picture of the scaled size, or of the screen's where that is smaller, in the
\* middle of the screen.
ComputeSplashRect(scale1024) ==
  LET drawWidth == Min({(SPLASH_WIDTH * scale1024) \div 1024, ScreenWidth})
      drawHeight == Min({(SPLASH_HEIGHT * scale1024) \div 1024, ScreenHeight})
  IN  Box((ScreenWidth - drawWidth) \div 2, (ScreenHeight - drawHeight) \div 2,
          drawWidth, drawHeight)

\* ClearScreen: what was drawn is gone, unless black is asked for in the way that
\* ignores it.
ClearScreen(pictures, color, ignoreBlack) ==
  IF ignoreBlack /\ color = {} THEN pictures ELSE <<>>

\* The nearest source row or column of DrawSplashFrame.
NearestIndex(k, draw, source) == (k * source) \div draw

-----------------------------------------------------------------------------
(* The setup screen.                                                       *)

\* C's division by two, towards zero.
Half(n) == IF n >= 0 THEN n \div 2 ELSE -((-n) \div 2)

\* A text in the middle of a box's width.
CenteredX(font, text, x, width) == x + Half(width - MeasureTextStringAtlas(font, text))

\* Mutant: no room is kept for what is above and below the icon.
IconHeightFull(panel) == AtLeast(200, Min({420, panel.Height}))

\* The height of the icon: what the panel leaves, from 200 to 420.
IconDrawHeight(panel) ==
  AtLeast(200, Min({420, IF panel.Height > 280 THEN panel.Height - 250
                                               ELSE panel.Height \div 2}))

IconBox(panel) ==
  Box(panel.X + 58, panel.Y + 160,
      (SETUP_ICON_WIDTH * IconDrawHeight(panel)) \div SETUP_ICON_HEIGHT,
      IconDrawHeight(panel))

\* Mutant: an off-by-one in the step from row to row.
SampleFixedPast(k, draw, source) ==
  IF draw > 1 THEN (k * source * 256) \div (draw - 1) ELSE 0

\* DrawImageNearestAlpha: the place in the source a row or a column is taken
\* from, in 1/256.
SampleFixed(k, draw, source) ==
  IF draw > 1 THEN (k * (source - 1) * 256) \div (draw - 1) ELSE 0

\* The two source rows or columns that are mixed.
SamplePair(k, draw, source) ==
  LET first == SampleFixed(k, draw, source) \div 256
  IN  <<first, IF first + 1 < source THEN first + 1 ELSE first>>

RightZoneX(panel) == panel.X + panel.Width \div 2 - 10
RightZoneWidth(panel) == panel.Width - (RightZoneX(panel) - panel.X) - 48

\* The label of a button, in its middle.
LabelBoxes(button, text) ==
  GlyphBoxes(uiFont, CenteredX(uiFont, text, button.X, button.Width),
             button.Y + Half(button.Height - uiFont.height), text)

\* The title with its outline of three pixels, centred on the panel.
TitleBoxes(panel) ==
  {Box(g.X - 3, g.Y - 3, g.Width + 6, g.Height + 6) :
     g \in GlyphBoxes(TitleFont, CenteredX(TitleFont, TitleText, panel.X, panel.Width),
                      panel.Y + 48, TitleText)}

PromptBoxes(panel) ==
  GlyphBoxes(uiFont,
             CenteredX(uiFont, PromptText, RightZoneX(panel), RightZoneWidth(panel)),
             panel.Y + 210, PromptText)

NoteBoxes(panel) ==
  IF MouseDetected THEN {}
  ELSE GlyphBoxes(NoteFont, panel.X + 34, panel.Y + panel.Height - 34, NoteText)

\* A colour of the title's gradient; the division is C's.
GradientColor(progress) ==
  LET from == <<101, 235, 255>>
      to == <<76, 255, 84>>
      part(d) == IF d >= 0 THEN (d * progress) \div 1024
                           ELSE -((-d * progress) \div 1024)
  IN  [i \in Channels |-> from[i] + part(to[i] - from[i])]

TitleColors ==
  {GradientColor(GlyphProgress(TitleFont, TitleText, i)) : i \in 1 .. Len(TitleText)}

\* What DrawSetupScreen draws on the panel, by name: it depends on the layout, the
\* font and the mouse only.
Scene ==
  [title |-> TitleBoxes(Panel), icon |-> {IconBox(Panel)}, prompt |-> PromptBoxes(Panel),
   buttons |-> {InstallButton, TryButton},
   install |-> LabelBoxes(InstallButton, InstallText), try |-> LabelBoxes(TryButton, TryText),
   note |-> NoteBoxes(Panel)]

-----------------------------------------------------------------------------
BootInit ==
  /\ Init
  /\ \E d \in Displays : /\ d.width = ScreenWidth /\ d.height = ScreenHeight
                         /\ mode = d.mode /\ alphas = d.alphas /\ uiFont = d.font
  /\ step = "start" /\ frame = 0 /\ drawn = <<>>
  /\ MouseDetected = FALSE
  /\ pixel = {} /\ ink = Black /\ passes = 0
  /\ channel = 1 /\ shift = 0

\* A colour drawn over the followed pixel.
Ink(color, alpha) ==
  /\ ink' = color
  /\ pixel' = AlphaBlendPixel(mode, pixel, color, alpha)

\* EfiMain clears the screen, with black not ignored.
ClearBeforeSplash ==
  /\ step = "start"
  /\ step' = "splash"
  /\ Ink(Black, 255)
  /\ drawn' = ClearScreen(drawn, ComposePixel(Black, mode), FALSE)
  /\ UNCHANGED <<vars, display, MouseDetected, frame, passes, search>>

\* A frame of PlaySplashSequence: its own clear, which ignores black, then the
\* picture.
SplashFrame ==
  /\ step = "splash" /\ frame < frameCount
  /\ LET progress1024 == (frame * 1024) \div (frameCount - 1)
         picture == ComputeSplashRect(Scale1024(EvaluateTween(progress1024)))
     IN  drawn' = Append(ClearScreen(drawn, ComposePixel(Black, mode), TRUE), picture)
  /\ frame' = frame + 1
  /\ UNCHANGED <<vars, step, display, MouseDetected, pixel, ink, passes, search>>

ClearAfterSplash ==
  /\ step = "splash" /\ frame = frameCount
  /\ step' = "loader"
  /\ Ink(Black, 255)
  /\ drawn' = ClearScreen(drawn, ComposePixel(Black, mode), FALSE)
  /\ UNCHANGED <<vars, display, MouseDetected, frame, passes, search>>

\* The loader's four lines: the first glyphs that are blended, which needs the pixel
\* below taken apart, by the masks if the mode has some.
LoaderText ==
  /\ step = "loader"
  /\ step' = IF mode.PixelFormat = "BIT_MASK" THEN "search" ELSE "layout"
  /\ UNCHANGED <<vars, display, MouseDetected, frame, drawn, pixel, ink, passes, search>>

\* Mutant: every other bit is passed over.
NextShiftDoubled(bit) == (bit + 2) % 32

\* The processor takes a shift by 32 for one by 0, and so on.
NextShift(bit) == (bit + 1) % 32

\* An iteration of MaskShift's loop that does not find the bit.
SearchOn ==
  /\ step = "search" /\ shift \notin mode.Masks[channel]
  /\ shift' = NextShift(shift)
  /\ UNCHANGED <<vars, step, display, MouseDetected, frame, drawn, pixel, ink, passes, channel>>

\* One that does, for the next channel or the end of DecomposePixel.  A loop over an
\* empty mask shifts by too much, so that the compiler may leave it, with any result.
SearchEnds ==
  /\ step = "search"
  /\ shift \in mode.Masks[channel] \/ mode.Masks[channel] = {}
  /\ shift' = 0
  /\ IF channel < 3 THEN channel' = channel + 1 /\ UNCHANGED step
                    ELSE channel' = 1 /\ step' = "layout"
  /\ UNCHANGED <<vars, display, MouseDetected, frame, drawn, pixel, ink, passes>>

\* The mouse is looked for (see Ps2Handshake), and the scene laid out.
LayOut ==
  /\ step = "layout"
  /\ step' = "panel"
  /\ MouseDetected' \in BOOLEAN
  /\ InitializeSetupUiState
  /\ UNCHANGED <<display, frame, drawn, pixel, ink, passes, search>>

\* DrawSetupScreen, from here on: the background and the panel.
DrawPanel ==
  /\ step = "panel"
  /\ step' = "title"
  /\ Ink(<<250, 250, 250>>, 255)
  /\ UNCHANGED <<vars, display, MouseDetected, frame, drawn, passes, search>>

\* One of the passes that draw the title in black, shifted by up to three pixels.
OutlinePass ==
  /\ step = "title" /\ passes < OutlinePasses
  /\ passes' = passes + 1
  /\ \E alpha \in alphas : Ink(Black, alpha)
  /\ UNCHANGED <<vars, step, display, MouseDetected, frame, drawn, search>>

\* The glyphs of the title, in the colours of the gradient, then the rest of the
\* Scene.
DrawTitleAndItems ==
  /\ step = "title" /\ passes = OutlinePasses
  /\ step' = "done"
  /\ \E color \in TitleColors, alpha \in alphas : Ink(color, alpha)
  /\ UNCHANGED <<vars, display, MouseDetected, frame, drawn, passes, search>>

BootNext ==
  \/ ClearBeforeSplash \/ SplashFrame \/ ClearAfterSplash
  \/ LoaderText \/ SearchOn \/ SearchEnds \/ LayOut \/ DrawPanel \/ OutlinePass \/ DrawTitleAndItems

BootSpec == BootInit /\ [][BootNext]_bootVars

\* The boot is one thread that nothing interrupts.
FairBootSpec == BootSpec /\ WF_bootVars(BootNext)

-----------------------------------------------------------------------------
(* Properties.                                                             *)

\* Nothing clears the screen between two frames of the splash sequence, since its
\* clear ignores black: only because the picture grows on every screen and from
\* every centre does each frame cover what is left of all earlier ones.
SplashFramesNested ==
  \A i \in DOMAIN drawn : /\ Within(drawn[i], drawn[Len(drawn)])
                          /\ Within(drawn[i], Box(0, 0, ScreenWidth, ScreenHeight))

\* However an image is scaled, every row and column read is one of the source,
\* and the icon is shown from its first to its last row and column.
SamplesSpanImage ==
  /\ drawn # <<>> =>
       LET b == drawn[Len(drawn)]
       IN  /\ \A k \in 0 .. b.Width - 1 : NearestIndex(k, b.Width, SPLASH_WIDTH) < SPLASH_WIDTH
           /\ \A k \in 0 .. b.Height - 1 : NearestIndex(k, b.Height, SPLASH_HEIGHT) < SPLASH_HEIGHT
  /\ step = "done" =>
       \A size \in {<<IconBox(Panel).Width, SETUP_ICON_WIDTH>>,
                   <<IconBox(Panel).Height, SETUP_ICON_HEIGHT>>} :
         /\ SamplePair(0, size[1], size[2])[1] = 0
         /\ SamplePair(size[1] - 1, size[1], size[2]) = <<size[2] - 1, size[2] - 1>>
         /\ \A k \in 0 .. size[1] - 1 : SamplePair(k, size[1], size[2])[2] < size[2]

Disjoint(a, b) ==
  \/ a.X + a.Width <= b.X \/ b.X + b.Width <= a.X
  \/ a.Y + a.Height <= b.Y \/ b.Y + b.Height <= a.Y

\* The screens the scene is made for: the prompt fits into its zone, with the icon
\* beside and the buttons below it.
Roomy ==
  /\ ScreenWidth >= 1024 /\ ScreenHeight >= 640
  /\ MeasureTextStringAtlas(uiFont, PromptText) <= RightZoneWidth(Panel)

\* On such a screen nothing of the setup scene leaves the panel and nothing hides
\* anything else; labels are inside their buttons, so that redrawing a button for
\* the hover draws exactly the pixels it had.
SceneUncluttered ==
  step = "done" /\ Roomy =>
    LET scene == Scene
    IN  /\ \A name \in DOMAIN scene : \A b \in scene[name] : Within(b, Panel)
        /\ \A one, other \in {"title", "icon", "prompt", "buttons", "note"} :
             one # other => \A a \in scene[one], b \in scene[other] : Disjoint(a, b)
        /\ \A b \in scene.install : Within(b, InstallButton)
        /\ \A b \in scene.try : Within(b, TryButton)

\* What a mode shows of a colour.
Shown(color) == DecomposePixel(ComposePixel(color, mode), mode)

\* In every mode and for every alpha, drawing over a pixel moves each channel
\* towards the colour drawn and never past it or away from it, although the
\* pixel is taken apart and put together with rounding in every pass.
BlendBetween ==
  [][Decomposes(mode) /\ pixel' # pixel =>
       \A i \in Channels :
         LET before == DecomposePixel(pixel, mode)[i]
             after == DecomposePixel(pixel', mode)[i]
             goal == Shown(ink')[i]
         IN  \/ before <= after /\ after <= goal
             \/ goal <= after /\ after <= before]_bootVars

\* The boot gets to the complete setup scene, or else it stays for ever at one
\* empty mask: a bit that is there is always found, for every channel and wherever in
\* the word it is, and nothing else can keep the scene away.
OnlyEmptyMaskStops ==
  \/ <>(step = "done")
  \/ \E i \in Channels :
       <>[](step = "search" /\ channel = i /\ mode.Masks[i] = {})
=============================================================================
