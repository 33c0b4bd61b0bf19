------------------------- MODULE BootScreensProofs -------------------------
(***************************************************************************)
(* The setup layout for every screen from the least size on; the splash    *)
(* sequence and the scaling of images for every screen, every mode and     *)
(* images of every size; and the setup scene for every font and text the   *)
(* positions in DrawSetupScreen are made for.                              *)
(***************************************************************************)
EXTENDS BootScreens, SequenceTheorems, WellFoundedInduction, TLAPS

-----------------------------------------------------------------------------
(* The layout.                                                             *)

\* A difference that is not negative, and a sum in range, do not wrap around.
LEMMA NoWrap ==
  ASSUME NEW v \in Nat, v < WordRange
  PROVE  v % WordRange = v
  BY ScreenAssumption, Z3

IInv ==
  /\ ScreenWidth \in 1 .. WordRange - 1 /\ ScreenHeight \in 1 .. WordRange - 1
  /\ pc = "setup" =>
       /\ Panel = PanelOf(ScreenWidth, ScreenHeight)
       /\ InstallButton = InstallButtonOf(Panel)
       /\ TryButton = TryButtonOf(InstallButton)

\* The panel on a screen that is large enough.
LEMMA PanelFits ==
  ASSUME NEW w \in 1 .. WordRange - 1, NEW h \in 1 .. WordRange - 1,
         w >= MinWidth, h >= MinHeight
  PROVE  LET p == PanelOf(w, h)
         IN  /\ p.X \in Nat /\ p.Y \in Nat /\ p.Width \in Nat /\ p.Height \in Nat
             /\ p.X >= 48 /\ p.X + p.Width <= w /\ p.Width >= 312
             /\ p.Y >= 44 /\ p.Y + p.Height <= h /\ p.Height >= 282
  <1> DEFINE mx == AtLeast(48, w \div 16)
             my == AtLeast(44, h \div 14)
  <1>a. w \in Nat /\ w < WordRange /\ h \in Nat /\ h < WordRange
    BY ScreenAssumption
  <1>b. /\ w \div 16 \in Nat /\ 16 * (w \div 16) <= w
        /\ h \div 14 \in Nat /\ 14 * (h \div 14) <= h
    BY <1>a
  <1>1. mx \in Nat /\ mx >= 48 /\ w - 2 * mx >= 312 /\ w - 2 * mx < WordRange
    BY <1>a, <1>b, ScreenAssumption DEF AtLeast, MinWidth
  <1>2. my \in Nat /\ my >= 44 /\ h - 2 * my >= 282 /\ h - 2 * my < WordRange
    BY <1>a, <1>b, ScreenAssumption DEF AtLeast, MinHeight, ButtonHeight, ButtonGap
  <1>3. w - 2 * mx \in Nat /\ h - 2 * my \in Nat
    BY <1>1, <1>2
  <1> HIDE DEF mx, my
  <1>4. Minus(w, 2 * mx) = w - 2 * mx /\ Minus(h, 2 * my) = h - 2 * my
    BY <1>1, <1>2, <1>3, NoWrap DEF Minus
  <1>5. PanelOf(w, h) = Box(mx, my, w - 2 * mx, h - 2 * my)
    BY <1>4 DEF PanelOf, mx, my
  <1> QED
    BY <1>1, <1>2, <1>3, <1>5 DEF Box

\* Where the buttons are on a panel that is large enough.
LEMMA ButtonPlaces ==
  ASSUME NEW x \in Nat, NEW y \in Nat, NEW w \in Nat, NEW h \in Nat,
         w >= 312, h >= 282, x + w < WordRange, y + h < WordRange
  PROVE  LET p == Box(x, y, w, h)
             bw == AtLeast(240, w \div 4)
         IN  /\ InstallButtonOf(p) = Box(x + w - bw - 72, y + h - 282, bw, 64)
             /\ TryButtonOf(InstallButtonOf(p)) = Box(x + w - bw - 72, y + h - 184, bw, 64)
             /\ bw \in Nat /\ bw + 72 <= w
  <1> DEFINE p == Box(x, y, w, h)
             bw == AtLeast(240, w \div 4)
             bx == x + w - bw - 72
             by == y + h - 282
  <1>1. w \div 4 \in Nat /\ 4 * (w \div 4) <= w
    OBVIOUS
  <1>2. bw \in Nat /\ bw + 72 <= w
    BY <1>1 DEF AtLeast
  <1> HIDE DEF bw
  <1>3. Plus(x, w) = x + w /\ Plus(y, h) = y + h
    BY NoWrap DEF Plus
  <1>4. Minus(x + w, bw) = x + w - bw /\ Minus(x + w - bw, 72) = bx
    <2>1. /\ x + w - bw \in Nat /\ x + w - bw < WordRange
          /\ bx \in Nat /\ bx < WordRange
      BY <1>2, ScreenAssumption
    <2>2. (x + w - bw) % WordRange = x + w - bw
      BY <2>1, NoWrap
    <2>3. bx % WordRange = bx
      BY <2>1, NoWrap
    <2> QED
      BY <1>2, <2>2, <2>3, ScreenAssumption DEF Minus
  <1>5. /\ Minus(y + h, 128) = y + h - 128
        /\ Minus(y + h - 128, 34) = y + h - 128 - 34
        /\ Minus(y + h - 128 - 34, 120) = by
    <2>1. /\ y + h - 128 \in Nat /\ y + h - 128 < WordRange
          /\ y + h - 128 - 34 \in Nat /\ y + h - 128 - 34 < WordRange
          /\ by \in Nat /\ by < WordRange /\ by = y + h - 128 - 34 - 120
      BY ScreenAssumption
    <2> QED
      BY <2>1, NoWrap DEF Minus
  <1>6. InstallButtonOf(p) = Box(bx, by, bw, 64)
    BY <1>3, <1>4, <1>5 DEF InstallButtonOf, Box, ButtonHeight, ButtonGap, bw
  <1>7. Plus(by, 64) = by + 64 /\ Plus(by + 64, 34) = by + 98
    <2>1. by + 64 \in Nat /\ by + 64 < WordRange /\ by + 98 \in Nat /\ by + 98 < WordRange
      BY ScreenAssumption
    <2>2. by + 64 + 34 = by + 98
      OBVIOUS
    <2> QED
      BY <2>1, <2>2, NoWrap DEF Plus
  <1>8. TryButtonOf(InstallButtonOf(p)) = Box(bx, by + 98, bw, 64)
    BY <1>6, <1>7 DEF TryButtonOf, Box, ButtonHeight, ButtonGap
  <1>9. by + 98 = y + h - 184
    OBVIOUS
  <1> HIDE DEF by
  <1> QED
    BY <1>2, <1>6, <1>8, <1>9 DEF bw, by

\* There they are on the panel, one below the other.
LEMMA ButtonsFit ==
  ASSUME NEW x \in Nat, NEW y \in Nat, NEW w \in Nat, NEW h \in Nat,
         w >= 312, h >= 282, x + w < WordRange, y + h < WordRange
  PROVE  LET p == Box(x, y, w, h)
             install == InstallButtonOf(p)
             try == TryButtonOf(install)
         IN  /\ Within(install, p) /\ Within(try, p)
             /\ install.Y + install.Height <= try.Y
  <1> DEFINE p == Box(x, y, w, h)
             bw == AtLeast(240, w \div 4)
  <1>1. /\ InstallButtonOf(p) = Box(x + w - bw - 72, y + h - 282, bw, 64)
        /\ TryButtonOf(InstallButtonOf(p)) = Box(x + w - bw - 72, y + h - 184, bw, 64)
        /\ bw \in Nat /\ bw + 72 <= w
    BY ButtonPlaces, ZenonT(40)
  <1> HIDE DEF bw
  <1> QED
    BY <1>1 DEF Within, Box

\* On every screen of at least 408 by 370 pixels the panel is on the screen, the
\* buttons are on the panel and they do not overlap.
THEOREM LayoutFits == Spec => []ButtonsOnPanel
  <1>1. Init => IInv
    BY ScreenAssumption DEF Init, IInv
  <1>2. IInv /\ [Next]_vars => IInv'
    BY DEF IInv, Next, InitializeSetupUiState, vars
  <1>3. IInv => ButtonsOnPanel
    <2> SUFFICES ASSUME IInv, pc = "setup", ScreenWidth >= MinWidth, ScreenHeight >= MinHeight
                 PROVE  /\ Within(Panel, Box(0, 0, ScreenWidth, ScreenHeight))
                        /\ Within(InstallButton, Panel) /\ Within(TryButton, Panel)
                        /\ InstallButton.Y + InstallButton.Height <= TryButton.Y
      BY DEF ButtonsOnPanel
    <2>1. /\ Panel.X \in Nat /\ Panel.Y \in Nat /\ Panel.Width \in Nat /\ Panel.Height \in Nat
          /\ Panel.X + Panel.Width <= ScreenWidth /\ Panel.Width >= 312
          /\ Panel.Y + Panel.Height <= ScreenHeight /\ Panel.Height >= 282
      BY PanelFits DEF IInv
    <2>2. Panel.X + Panel.Width < WordRange /\ Panel.Y + Panel.Height < WordRange
      BY <2>1, ScreenAssumption DEF IInv
    <2>3. Panel = Box(Panel.X, Panel.Y, Panel.Width, Panel.Height)
      BY DEF IInv, PanelOf, Box
    <2>4. Within(Panel, Box(0, 0, ScreenWidth, ScreenHeight))
      BY <2>1 DEF Within, Box, IInv
    <2> QED
      BY <2>1, <2>2, <2>3, <2>4, ButtonsFit DEF IInv
  <1> QED
    BY <1>1, <1>2, <1>3, PTL DEF Spec

-----------------------------------------------------------------------------
(* The splash sequence.                                                    *)

LEMMA MinOfTwo ==
  ASSUME NEW a \in Int, NEW b \in Int
  PROVE  Min({a, b}) = IF a <= b THEN a ELSE b
<1> DEFINE m == IF a <= b THEN a ELSE b
<1>1. m \in {a, b} /\ \A y \in {a, b} : m <= y
  OBVIOUS
<1>2. \A x \in {a, b} : (\A y \in {a, b} : x <= y) => x = m
  OBVIOUS
<1> QED
  BY <1>1, <1>2 DEF Min

LEMMA ProductOrder ==
  ASSUME NEW a \in Nat, NEW b \in Nat, NEW c \in Nat, a <= b
  PROVE  c * a \in Nat /\ c * b \in Nat /\ c * a <= c * b
  BY Z3

LEMMA CubeOrder ==
  ASSUME NEW a \in Nat, NEW b \in Nat, a <= b
  PROVE  a * a * a \in Nat /\ b * b * b \in Nat /\ a * a * a <= b * b * b
<1>1. a * a \in Nat /\ b * b \in Nat /\ a * a <= a * b /\ a * b <= b * b /\ a * b \in Nat
  BY Z3
<1>2. a * a <= b * b
  BY <1>1
<1> DEFINE p == a * a
           q == b * b
<1> HIDE DEF p, q
<1>3. p \in Nat /\ q \in Nat /\ p <= q
  BY <1>1, <1>2 DEF p, q
<1>4. p * a \in Nat /\ q * b \in Nat /\ p * a <= p * b /\ p * b <= q * b /\ p * b \in Nat
  BY <1>3, Z3
<1> QED
  BY <1>4 DEF p, q

\* A part of a whole, in 1/1024.
Fraction == 0 .. 1024

\* The eased progress grows with the progress, and stays in its scale.
LEMMA TweenOrder ==
  ASSUME NEW p \in Fraction, NEW q \in Fraction, p <= q
  PROVE  /\ EvaluateTween(p) \in Fraction /\ EvaluateTween(q) \in Fraction
         /\ EvaluateTween(p) <= EvaluateTween(q)
<1> DEFINE cube(r) == r * r * r
           tween(c) == (1024 * 1048576 - c + 524288) \div 1048576
<1>1. Min({p, 1024}) = p /\ Min({q, 1024}) = q
  BY MinOfTwo, SMTT(30) DEF Fraction
<1> DEFINE u == 1024 - q
           v == 1024 - p
<1>2. EvaluateTween(p) = tween(cube(v)) /\ EvaluateTween(q) = tween(cube(u))
  BY <1>1, SMT DEF EvaluateTween
<1>3. u \in Nat /\ v \in Nat /\ u <= v /\ v <= 1024
  BY DEF Fraction
<1>4. cube(1024) = 1073741824
  BY SMT
<1> HIDE DEF u, v
<1>5. cube(u) \in Nat /\ cube(v) \in Nat /\ cube(u) <= cube(v)
  BY <1>3, CubeOrder
<1>6. cube(v) <= cube(1024)
  BY <1>3, CubeOrder
<1> HIDE DEF cube
<1>7. cube(v) <= 1073741824
  BY <1>4, <1>6, SMT
<1> DEFINE x == cube(u)
           y == cube(v)
<1> HIDE DEF x, y
<1>8. x \in Nat /\ y \in Nat /\ x <= y /\ y <= 1073741824
  BY <1>5, <1>7, SMT DEF x, y
<1>9. tween(x) \in 0 .. 1024 /\ tween(y) \in 0 .. 1024 /\ tween(y) <= tween(x)
  BY <1>8, SMT
<1> HIDE DEF tween
<1> QED
  BY <1>2, <1>9 DEF x, y, Fraction

Boxes == [X : Int, Y : Int, Width : Nat, Height : Nat]

\* A larger scale gives a picture that covers that of a smaller one, on the screen.
LEMMA RectOrder ==
  ASSUME ScreenWidth \in Nat, ScreenHeight \in Nat, NEW s \in Nat, NEW t \in Nat, s <= t
  PROVE  /\ ComputeSplashRect(s) \in Boxes
         /\ Within(ComputeSplashRect(s), ComputeSplashRect(t))
         /\ Within(ComputeSplashRect(s), Box(0, 0, ScreenWidth, ScreenHeight))
<1> DEFINE side(size, limit, r) == Min({(size * r) \div 1024, limit})
<1>1. ASSUME NEW size \in Nat, NEW limit \in Nat
      PROVE  /\ side(size, limit, s) \in Nat /\ side(size, limit, t) \in Nat
             /\ side(size, limit, s) <= side(size, limit, t) /\ side(size, limit, t) <= limit
  <2>1. size * s \in Nat /\ size * t \in Nat /\ size * s <= size * t
    BY ProductOrder
  <2> DEFINE a == size * s
             b == size * t
  <2> HIDE DEF a, b
  <2>2. a \div 1024 \in Nat /\ b \div 1024 \in Nat /\ a \div 1024 <= b \div 1024
    BY <2>1 DEF a, b
  <2>3. /\ Min({a \div 1024, limit}) = IF a \div 1024 <= limit THEN a \div 1024 ELSE limit
        /\ Min({b \div 1024, limit}) = IF b \div 1024 <= limit THEN b \div 1024 ELSE limit
    BY <2>2, MinOfTwo
  <2> QED
    BY <2>2, <2>3 DEF a, b
<1> HIDE DEF side
<1> DEFINE w(r) == side(SPLASH_WIDTH, ScreenWidth, r)
           h(r) == side(SPLASH_HEIGHT, ScreenHeight, r)
<1>2. /\ w(s) \in Nat /\ w(t) \in Nat /\ w(s) <= w(t) /\ w(t) <= ScreenWidth
      /\ h(s) \in Nat /\ h(t) \in Nat /\ h(s) <= h(t) /\ h(t) <= ScreenHeight
  BY <1>1, ImageAssumption
<1>3. \A r \in {s, t} : ComputeSplashRect(r) =
        Box((ScreenWidth - w(r)) \div 2, (ScreenHeight - h(r)) \div 2, w(r), h(r))
  BY DEF ComputeSplashRect, side
<1> HIDE DEF w, h
<1>4. \A a, b, l \in Nat : a <= b /\ b <= l =>
        /\ (l - b) \div 2 <= (l - a) \div 2 /\ 0 <= (l - a) \div 2
        /\ (l - a) \div 2 + a <= (l - b) \div 2 + b /\ (l - a) \div 2 + a <= l
        /\ (l - a) \div 2 \in Int
  OBVIOUS
<1> QED
  BY <1>2, <1>3, <1>4 DEF Within, Box, Boxes

Frames == 0 .. 29

\* The picture of a frame.
Picture(f) ==
  ComputeSplashRect(Scale1024(EvaluateTween((f * 1024) \div (frameCount - 1))))

LEMMA PictureOrder ==
  ASSUME ScreenWidth \in Nat, ScreenHeight \in Nat,
         NEW f \in Frames, NEW g \in Frames, f <= g
  PROVE  /\ Picture(f) \in Boxes /\ Within(Picture(f), Picture(g))
         /\ Within(Picture(f), Box(0, 0, ScreenWidth, ScreenHeight))
<1> DEFINE p == (f * 1024) \div (frameCount - 1)
           q == (g * 1024) \div (frameCount - 1)
<1>1. p \in Fraction /\ q \in Fraction /\ p <= q
  BY DEF frameCount, Fraction, Frames
<1> HIDE DEF p, q
<1> DEFINE a == EvaluateTween(p)
           b == EvaluateTween(q)
<1>2. a \in Fraction /\ b \in Fraction /\ a <= b
  BY <1>1, TweenOrder
<1> HIDE DEF a, b
<1> DEFINE s == Scale1024(a)
           t == Scale1024(b)
<1>3. s \in Nat /\ t \in Nat /\ s <= t
  BY <1>2 DEF Scale1024, Fraction
<1> HIDE DEF s, t
<1>4. Picture(f) = ComputeSplashRect(s) /\ Picture(g) = ComputeSplashRect(t)
  BY DEF Picture, s, t, a, b, p, q
<1> QED
  BY <1>3, <1>4, RectOrder

\* What the frames so far have left on the screen.
SplashInv ==
  /\ ScreenWidth \in Nat /\ ScreenHeight \in Nat
  /\ step = "start" => frame = 0
  /\ step # "splash" => drawn = <<>>
  /\ step = "splash" => /\ frame \in 0 .. 30
                        /\ drawn \in Seq(Boxes)
                        /\ drawn # <<>> => frame > 0 /\ drawn[Len(drawn)] = Picture(frame - 1)
  /\ \A i \in DOMAIN drawn : \E f \in Frames : f < frame /\ drawn[i] = Picture(f)

LEMMA SplashInvInductive == BootSpec => []SplashInv
<1>1. BootInit => SplashInv
  BY ScreenAssumption DEF BootInit, Init, SplashInv
<1>2. SplashInv /\ [BootNext]_bootVars => SplashInv'
  <2> SUFFICES ASSUME SplashInv, [BootNext]_bootVars
               PROVE  SplashInv'
    OBVIOUS
  <2>1. CASE ClearBeforeSplash
    BY <2>1 DEF SplashInv, ClearBeforeSplash, ClearScreen, vars, Picture, ComputeSplashRect
  <2>2. CASE SplashFrame
    <3> DEFINE left == ClearScreen(drawn, ComposePixel(Black, mode), TRUE)
               picture == Picture(frame)
    <3>1. /\ step = "splash" /\ step' = "splash" /\ frame < 30 /\ frame' = frame + 1
          /\ ScreenWidth' = ScreenWidth /\ ScreenHeight' = ScreenHeight
          /\ drawn' = Append(left, picture)
      BY <2>2 DEF SplashFrame, vars, Picture, frameCount
    <3>2. left \in Seq(Boxes) /\ (left = drawn \/ left = <<>>)
      BY <3>1 DEF SplashInv, ClearScreen
    <3>3. /\ frame \in Frames /\ ScreenWidth \in Nat /\ ScreenHeight \in Nat
          /\ drawn \in Seq(Boxes) /\ frame <= frame
      BY <3>1, SMTT(30) DEF SplashInv, Frames
    <3>4. picture \in Boxes
      BY <3>3, PictureOrder
    <3>5. ASSUME NEW f \in Frames
          PROVE  (Picture(f))' = Picture(f)
      BY <3>1 DEF Picture, ComputeSplashRect
    <3> HIDE DEF left, picture
    <3>6. /\ drawn' \in Seq(Boxes) /\ Len(drawn') = Len(left) + 1
          /\ drawn'[Len(drawn')] = picture /\ DOMAIN drawn' = 1 .. Len(left) + 1
          /\ \A i \in 1 .. Len(left) : drawn'[i] = left[i]
      BY <3>1, <3>2, <3>4
    <3>7. \A i \in 1 .. Len(left) : \E f \in Frames : f < frame /\ left[i] = Picture(f)
      <4>1. \A i \in DOMAIN drawn : \E f \in Frames : f < frame /\ drawn[i] = Picture(f)
        BY DEF SplashInv
      <4>2. CASE left = drawn
        BY <3>3, <4>1, <4>2
      <4>3. CASE left = <<>>
        BY <4>3
      <4> QED
        BY <3>2, <4>2, <4>3
    <3>8. (frame' - 1) \in Frames /\ frame' - 1 = frame /\ frame' \in 0 .. 30 /\ frame' > 0
      BY <3>1, <3>3 DEF Frames
    <3>9. \A i \in DOMAIN drawn' : \E f \in Frames : f < frame' /\ drawn'[i] = Picture(f)
      <4> SUFFICES ASSUME NEW i \in DOMAIN drawn'
                   PROVE  \E f \in Frames : f < frame' /\ drawn'[i] = Picture(f)
        OBVIOUS
      <4>1. CASE i \in 1 .. Len(left)
        <5>1. PICK f \in Frames : f < frame /\ left[i] = Picture(f)
          BY <3>7, <4>1
        <5>2. f < frame'
          BY <3>1, <3>3, <5>1 DEF Frames
        <5> QED
          BY <3>6, <4>1, <5>1, <5>2, Zenon
      <4>2. CASE i = Len(left) + 1
        <5>1. frame < frame'
          BY <3>1, <3>3 DEF Frames
        <5>2. drawn'[i] = Picture(frame)
          BY <3>6, <4>2 DEF picture
        <5> QED
          BY <3>3, <5>1, <5>2
      <4>3. Len(left) \in Nat
        BY <3>2
      <4> QED
        BY <3>6, <4>1, <4>2, <4>3
    <3> QED
      BY <3>1, <3>5, <3>6, <3>8, <3>9 DEF SplashInv, picture
  <2>3. CASE ClearAfterSplash
    BY <2>3 DEF SplashInv, ClearAfterSplash, ClearScreen, vars, Picture, ComputeSplashRect
  <2>4. CASE \/ LoaderText \/ SearchOn \/ SearchEnds
             \/ LayOut \/ DrawPanel \/ OutlinePass \/ DrawTitleAndItems
    <3>1. /\ step \notin {"start", "splash"} /\ step' \notin {"start", "splash"}
          /\ drawn' = drawn /\ frame' = frame
          /\ ScreenWidth' = ScreenWidth /\ ScreenHeight' = ScreenHeight
      BY <2>4 DEF LoaderText, SearchOn, SearchEnds, LayOut, DrawPanel, OutlinePass, DrawTitleAndItems,
                  InitializeSetupUiState, vars
    <3> QED
      BY <3>1 DEF SplashInv
  <2>5. CASE UNCHANGED bootVars
    <3>1. /\ step' = step /\ drawn' = drawn /\ frame' = frame
          /\ ScreenWidth' = ScreenWidth /\ ScreenHeight' = ScreenHeight
      BY <2>5 DEF bootVars, screenVars, vars
    <3>2. ASSUME NEW f
          PROVE  (Picture(f))' = Picture(f)
      BY <3>1 DEF Picture, ComputeSplashRect
    <3> QED
      BY <3>1, <3>2 DEF SplashInv
  <2> QED
    BY <2>1, <2>2, <2>3, <2>4, <2>5 DEF BootNext
<1> QED
  BY <1>1, <1>2, PTL DEF BootSpec

\* On every screen and for a splash image of every size, each frame of the splash
\* sequence covers what is left of all earlier ones and stays on the screen.
THEOREM SplashNested == BootSpec => []SplashFramesNested
<1>1. SplashInv => SplashFramesNested
  <2> SUFFICES ASSUME SplashInv, NEW i \in DOMAIN drawn
               PROVE  /\ Within(drawn[i], drawn[Len(drawn)])
                      /\ Within(drawn[i], Box(0, 0, ScreenWidth, ScreenHeight))
    BY DEF SplashFramesNested
  <2>1. drawn # <<>> /\ step = "splash"
    BY DEF SplashInv
  <2>2. /\ frame > 0 /\ frame \in 0 .. 30 /\ drawn[Len(drawn)] = Picture(frame - 1)
        /\ ScreenWidth \in Nat /\ ScreenHeight \in Nat
    BY <2>1 DEF SplashInv
  <2>3. PICK f \in Frames : f < frame /\ drawn[i] = Picture(f)
    BY DEF SplashInv
  <2>4. f <= frame - 1 /\ frame - 1 \in Frames
    BY <2>2, <2>3 DEF Frames
  <2> QED
    BY <2>2, <2>3, <2>4, PictureOrder
<1> QED
  BY <1>1, SplashInvInductive, PTL

-----------------------------------------------------------------------------
(* The scaled images, and the layout within the boot.                      *)

\* The boot lays the screen out as InitializeSetupUiState alone does.
LEMMA BootLaysOut == BootSpec => Spec
<1>1. BootInit => Init
  BY DEF BootInit
<1>2. [BootNext]_bootVars => [Next]_vars
  BY ZenonT(40) DEF BootNext, Next, ClearBeforeSplash, SplashFrame, ClearAfterSplash, LoaderText, SearchOn,
         SearchEnds, LayOut, DrawPanel, OutlinePass, DrawTitleAndItems, bootVars
<1> QED
  BY <1>1, <1>2, PTL DEF BootSpec, Spec

\* Whatever the boot draws before and after, in every mode, its panel and buttons
\* are where the layout has room for them.
THEOREM BootLayoutFits == BootSpec => []ButtonsOnPanel
  BY BootLaysOut, LayoutFits, PTL

\* DrawSplashFrame reads rows and columns of the source only.
LEMMA NearestInside ==
  ASSUME NEW draw \in Nat, NEW source \in Nat \ {0}, NEW k \in 0 .. draw - 1
  PROVE  NearestIndex(k, draw, source) < source
<1>1. k * source < draw * source /\ k * source \in Nat
  BY Z3
<1> DEFINE p == k * source
<1> HIDE DEF p
<1>2. p \in Nat /\ draw \in Nat /\ draw > 0 /\ p < draw * source
  BY <1>1 DEF p
<1>3. p \div draw < source
  BY <1>2, Z3
<1> QED
  BY <1>3 DEF NearestIndex, p

\* DrawImageNearestAlpha reads the source from its first to its last row or column.
LEMMA PairsSpan ==
  ASSUME NEW draw \in Nat, draw > 1, NEW source \in Nat \ {0}
  PROVE  /\ SamplePair(0, draw, source)[1] = 0
         /\ SamplePair(draw - 1, draw, source) = <<source - 1, source - 1>>
         /\ \A k \in 0 .. draw - 1 : SamplePair(k, draw, source)[2] < source
<1> DEFINE last == draw - 1
           whole == (source - 1) * 256
<1>1. last \in Nat /\ last > 0 /\ whole \in Nat
  OBVIOUS
<1>2. ASSUME NEW k \in Nat, k <= last
      PROVE  /\ SampleFixed(k, draw, source) = (k * whole) \div last
             /\ SampleFixed(k, draw, source) \in 0 .. whole
  <2>1. k * (source - 1) * 256 = k * whole
    BY Z3
  <2>2. k * whole \in Nat /\ k * whole <= last * whole
    BY <1>1, <1>2, Z3
  <2> HIDE DEF last, whole
  <2> DEFINE p == k * whole
  <2> HIDE DEF p
  <2>3. p \in Nat /\ p <= last * whole
    BY <2>2 DEF p
  <2>4. p \div last \in 0 .. whole
    BY <1>1, <2>3, Z3
  <2>5. SampleFixed(k, draw, source) = p \div last
    BY <2>1 DEF SampleFixed, p, last
  <2> QED
    BY <2>4, <2>5 DEF p
<1>3. SampleFixed(0, draw, source) = 0 /\ SampleFixed(last, draw, source) = whole
  <2>1. last <= last /\ 0 <= last /\ 0 * whole = 0
    BY <1>1
  <2>2. /\ SampleFixed(0, draw, source) = (0 * whole) \div last
        /\ SampleFixed(last, draw, source) = (last * whole) \div last
    BY <1>1, <1>2, <2>1
  <2> HIDE DEF last, whole
  <2>3. (last * whole) \div last = whole /\ 0 \div last = 0
    BY <1>1, Z3
  <2> QED
    BY <2>1, <2>2, <2>3
<1>4. whole \div 256 = source - 1
  OBVIOUS
<1>5. ASSUME NEW k \in 0 .. draw - 1
      PROVE  SamplePair(k, draw, source)[2] < source
  <2>1. SampleFixed(k, draw, source) \in 0 .. whole
    BY <1>2
  <2>2. SampleFixed(k, draw, source) \div 256 \in 0 .. source - 1
    BY <2>1
  <2> QED
    BY <2>2 DEF SamplePair
<1> QED
  BY <1>3, <1>4, <1>5 DEF SamplePair

\* The icon is at least two pixels wide and high on every panel.
LEMMA IconDrawn ==
  ASSUME NEW panel, panel.Height \in Nat
  PROVE  /\ IconBox(panel).Width \in Nat /\ IconBox(panel).Width > 1
         /\ IconBox(panel).Height \in Nat /\ IconBox(panel).Height > 1
<1> DEFINE room == IF panel.Height > 280 THEN panel.Height - 250 ELSE panel.Height \div 2
           h == IconDrawHeight(panel)
<1>1. room \in Nat
  OBVIOUS
<1> HIDE DEF room
<1>2. Min({420, room}) \in Nat
  BY <1>1, MinOfTwo
<1>3. IconDrawHeight(panel) = AtLeast(200, Min({420, room}))
  BY DEF IconDrawHeight, room
<1>4. h \in Nat /\ h >= 200
  BY <1>2, <1>3 DEF AtLeast
<1> HIDE DEF h
<1>5. SETUP_ICON_WIDTH \in Nat \ {0} /\ SETUP_ICON_HEIGHT \in Nat \ {0}
  BY ImageAssumption
<1>6. SETUP_ICON_WIDTH * h >= SETUP_ICON_WIDTH * 200 /\ SETUP_ICON_WIDTH * h \in Nat
  BY <1>4, <1>5, Z3
<1> DEFINE p == SETUP_ICON_WIDTH * h
<1> HIDE DEF p
<1>7. p \in Nat /\ p >= 2 * SETUP_ICON_HEIGHT
  BY <1>5, <1>6, IconAssumption DEF p
<1>8. p \div SETUP_ICON_HEIGHT \in Nat /\ p \div SETUP_ICON_HEIGHT > 1
  BY <1>5, <1>7, Z3
<1> QED
  BY <1>4, <1>8 DEF IconBox, Box, p, h

\* Where the scene is complete, it was laid out before.
SceneInv ==
  /\ IInv
  /\ step \in {"start", "splash", "loader", "search", "layout"} \/ pc = "setup"

LEMMA SceneInvInductive == BootSpec => []SceneInv
<1>1. BootInit => SceneInv
  BY ScreenAssumption DEF BootInit, Init, IInv, SceneInv
<1>2. SceneInv /\ [BootNext]_bootVars => SceneInv'
  <2> SUFFICES ASSUME SceneInv, [BootNext]_bootVars
               PROVE  SceneInv'
    OBVIOUS
  <2>1. CASE LayOut
    BY <2>1 DEF SceneInv, IInv, LayOut, InitializeSetupUiState
  <2>2. CASE ~ LayOut
    <3>1. UNCHANGED vars
      BY <2>2, ZenonT(40) DEF BootNext, ClearBeforeSplash, SplashFrame, ClearAfterSplash, LoaderText, SearchOn,
                  SearchEnds, DrawPanel, OutlinePass, DrawTitleAndItems, bootVars
    <3>2. IInv' /\ pc' = pc
      BY <3>1 DEF SceneInv, IInv, vars
    <3>3. step' \in {"start", "splash", "loader", "search", "layout"} \/ pc = "setup"
      <4>1. CASE ClearBeforeSplash \/ SplashFrame \/ ClearAfterSplash
        BY <4>1, ZenonT(40) DEF ClearBeforeSplash, SplashFrame, ClearAfterSplash
      <4>2. CASE LoaderText \/ SearchOn \/ SearchEnds
        <5>1. step' \in {"search", "layout"}
          BY <4>2 DEF LoaderText, SearchOn, SearchEnds
        <5> QED
          BY <5>1
      <4>3. CASE DrawPanel \/ OutlinePass \/ DrawTitleAndItems
        BY <4>3 DEF SceneInv, DrawPanel, OutlinePass, DrawTitleAndItems
      <4>4. CASE UNCHANGED bootVars
        BY <4>4 DEF SceneInv, bootVars, screenVars
      <4> QED
        BY <2>2, <4>1, <4>2, <4>3, <4>4 DEF BootNext
    <3> QED
      BY <3>2, <3>3 DEF SceneInv
  <2> QED
    BY <2>1, <2>2
<1> QED
  BY <1>1, <1>2, PTL DEF BootSpec

\* On every screen, for images of every size, every row and column read is one of
\* the source, and the icon is shown from its first to its last row and column.
THEOREM SamplesSpan == BootSpec => []SamplesSpanImage
<1>1. SplashInv /\ SceneInv => SamplesSpanImage
  <2> SUFFICES ASSUME SplashInv, SceneInv
               PROVE  SamplesSpanImage
    OBVIOUS
  <2>1. ASSUME drawn # <<>>
        PROVE  /\ drawn[Len(drawn)].Width \in Nat /\ drawn[Len(drawn)].Height \in Nat
    <3>1. drawn \in Seq(Boxes)
      BY <2>1 DEF SplashInv
    <3>2. drawn[Len(drawn)] \in Boxes
      BY <2>1, <3>1
    <3> QED
      BY <3>2 DEF Boxes
  <2>2. SPLASH_WIDTH \in Nat \ {0} /\ SPLASH_HEIGHT \in Nat \ {0}
    BY ImageAssumption
  <2>3. SETUP_ICON_WIDTH \in Nat \ {0} /\ SETUP_ICON_HEIGHT \in Nat \ {0}
    BY ImageAssumption
  <2>4. ASSUME step = "done"
        PROVE  Panel.Height \in Nat
    <3>1. Panel.Height = Minus(ScreenHeight, 2 * AtLeast(44, ScreenHeight \div 14))
      BY <2>4 DEF SceneInv, IInv, PanelOf, Box
    <3>2. ScreenHeight \in Nat /\ WordRange \in Nat /\ WordRange > 0
      BY ScreenAssumption DEF SceneInv, IInv
    <3>3. ScreenHeight - 2 * AtLeast(44, ScreenHeight \div 14) \in Int
      BY <3>2 DEF AtLeast
    <3> QED
      BY <3>1, <3>2, <3>3, Z3 DEF Minus
  <2>5. ASSUME drawn # <<>>
        PROVE  LET b == drawn[Len(drawn)]
               IN  /\ \A k \in 0 .. b.Width - 1 :
                        NearestIndex(k, b.Width, SPLASH_WIDTH) < SPLASH_WIDTH
                   /\ \A k \in 0 .. b.Height - 1 :
                        NearestIndex(k, b.Height, SPLASH_HEIGHT) < SPLASH_HEIGHT
    BY <2>1, <2>2, <2>5, NearestInside
  <2>6. ASSUME step = "done",
               NEW size \in {<<IconBox(Panel).Width, SETUP_ICON_WIDTH>>,
                             <<IconBox(Panel).Height, SETUP_ICON_HEIGHT>>}
        PROVE  /\ SamplePair(0, size[1], size[2])[1] = 0
               /\ SamplePair(size[1] - 1, size[1], size[2]) = <<size[2] - 1, size[2] - 1>>
               /\ \A k \in 0 .. size[1] - 1 : SamplePair(k, size[1], size[2])[2] < size[2]
    <3>1. size[1] \in Nat /\ size[1] > 1 /\ size[2] \in Nat \ {0}
      BY <2>3, <2>4, <2>6, IconDrawn
    <3> QED
      BY <3>1, PairsSpan
  <2> QED
    BY <2>5, <2>6 DEF SamplesSpanImage
<1> QED
  BY <1>1, SplashInvInductive, SceneInvInductive, PTL

-----------------------------------------------------------------------------
(* Texts.                                                                  *)

\* A set of numbers that is not empty has a smallest one.
LEMMA Smallest ==
  ASSUME NEW T, T \subseteq Nat, T # {}
  PROVE  \E x \in T : \A y \in T : x <= y
<1>1. PICK x \in T : \A y \in T : ~(<<y, x>> \in OpToRel(<, Nat))
  BY WFMin, NatLessThanWellFounded
<1>2. \A y \in T : <<y, x>> \in OpToRel(<, Nat) <=> y < x
  BY DEF OpToRel
<1>3. x \in Nat
  BY <1>1
<1>4. \A y \in T : ~(y < x)
  BY <1>1, <1>2
<1> QED
  BY <1>3, <1>4

\* The pen behind a glyph.
NextPen(font, text, i, pen) ==
  IF text[i - 1] = NewLine THEN [x |-> 0, line |-> pen.line + 1]
  ELSE [pen EXCEPT !.x = @ + Advance(font, text[i - 1])]

\* The pens of the first glyphs.
ArePens(font, text, n, pens) ==
  pens = [i \in 1 .. n |-> IF i = 1 THEN [x |-> 0, line |-> 0]
                                    ELSE NextPen(font, text, i, pens[i - 1])]

\* One glyph more.
LEMMA OnePenMore ==
  ASSUME NEW font, NEW text, NEW n \in Nat, NEW pens, ArePens(font, text, n, pens)
  PROVE  \E more : ArePens(font, text, n + 1, more)
<1> DEFINE last == IF n = 0 THEN [x |-> 0, line |-> 0] ELSE NextPen(font, text, n + 1, pens[n])
           more == [i \in 1 .. n + 1 |-> IF i = n + 1 THEN last ELSE pens[i]]
           again == [i \in 1 .. n + 1 |-> IF i = 1 THEN [x |-> 0, line |-> 0]
                                          ELSE NextPen(font, text, i, more[i - 1])]
<1>1. ASSUME NEW i \in 1 .. n + 1 PROVE more[i] = again[i]
  <2>1. CASE i = n + 1
    <3>1. more[i] = last
      BY <2>1
    <3>2. CASE n = 0
      BY <3>1, <3>2, <2>1
    <3>3. CASE n # 0
      <4>1. i # 1 /\ i - 1 = n /\ n \in 1 .. n + 1 /\ n # n + 1
        BY <2>1, <3>3
      <4>2. more[n] = pens[n]
        BY <4>1
      <4>3. again[i] = NextPen(font, text, i, more[i - 1])
        BY <4>1
      <4> HIDE DEF more, again
      <4> QED
        BY <3>1, <3>3, <4>1, <4>2, <4>3, <2>1
    <3> QED
      BY <3>2, <3>3
  <2>2. CASE i # n + 1
    <3>1. i \in 1 .. n /\ more[i] = pens[i]
      BY <2>2
    <3>2. pens[i] = IF i = 1 THEN [x |-> 0, line |-> 0] ELSE NextPen(font, text, i, pens[i - 1])
      BY <3>1 DEF ArePens
    <3>3. i # 1 => more[i - 1] = pens[i - 1]
      BY <3>1
    <3>4. again[i] = IF i = 1 THEN [x |-> 0, line |-> 0] ELSE NextPen(font, text, i, more[i - 1])
      OBVIOUS
    <3> HIDE DEF more, again
    <3> QED
      BY <3>1, <3>2, <3>3, <3>4
  <2> QED
    BY <2>1, <2>2
<1>2. more = [i \in 1 .. n + 1 |-> more[i]] /\ again = [i \in 1 .. n + 1 |-> again[i]]
  OBVIOUS
<1>3. more = again
  <2> HIDE DEF more, again
  <2> QED BY <1>1, <1>2
<1>4. ArePens(font, text, n + 1, more)
  BY <1>3 DEF ArePens
<1> QED
  BY <1>4

\* Every text has pens.
LEMMA PensThere ==
  ASSUME NEW font, NEW text, NEW n \in Nat
  PROVE  \E pens : ArePens(font, text, n, pens)
<1> DEFINE None == {k \in Nat : ~ \E pens : ArePens(font, text, k, pens)}
<1> SUFFICES ASSUME None # {} PROVE FALSE
  OBVIOUS
<1>1. PICK k \in None : \A j \in None : k <= j
  BY Smallest
<1>2. k # 0
  <2>1. ArePens(font, text, 0, [i \in 1 .. 0 |-> 0])
    BY DEF ArePens
  <2> QED
    BY <2>1
<1>3. k - 1 \in Nat /\ k - 1 \notin None /\ (k - 1) + 1 = k
  BY <1>1, <1>2
<1>4. PICK pens : ArePens(font, text, k - 1, pens)
  BY <1>3
<1>5. \E more : ArePens(font, text, (k - 1) + 1, more)
  BY <1>3, <1>4, OnePenMore
<1> QED
  BY <1>3, <1>5

\* The recursion of Pens is well founded: it has the values it says.
LEMMA PensUnfold ==
  ASSUME NEW font, NEW text, Len(text) \in Nat
  PROVE  ArePens(font, text, Len(text) + 1, Pens(font, text))
<1>1. \E pens : ArePens(font, text, Len(text) + 1, pens)
  BY PensThere
<1>2. Pens(font, text) = CHOOSE pens : ArePens(font, text, Len(text) + 1, pens)
  BY DEF Pens, ArePens, NextPen
<1> QED
  BY <1>1, <1>2

\* On a line the pen goes to the right by the advances.
LEMMA LinePens ==
  ASSUME NEW font, IsFont(font), NEW text, IsLine(text)
  PROVE  LET pens == Pens(font, text)
         IN  /\ pens[1].x = 0
             /\ \A i \in 1 .. Len(text) + 1 : pens[i].x \in Nat /\ pens[i].line = 0
             /\ \A i \in 1 .. Len(text) : /\ Advance(font, text[i]) \in Nat
                                          /\ pens[i + 1].x = pens[i].x + Advance(font, text[i])
<1> DEFINE pens == Pens(font, text)
           Pen == [x : Nat, line : {0}]
<1>1. Len(text) \in Nat /\ \A i \in 1 .. Len(text) : text[i] # NewLine
  BY DEF IsLine
<1>2. \A i \in 1 .. Len(text) : Advance(font, text[i]) \in Nat
  BY DEF IsFont, Advance
<1>3. \A i \in 1 .. Len(text) + 1 :
        pens[i] = IF i = 1 THEN [x |-> 0, line |-> 0] ELSE NextPen(font, text, i, pens[i - 1])
  BY <1>1, PensUnfold DEF ArePens
<1> HIDE DEF pens
<1>4. ASSUME NEW i \in 1 .. Len(text) + 1, i # 1
      PROVE  /\ i - 1 \in 1 .. Len(text)
             /\ pens[i] = [pens[i - 1] EXCEPT !.x = @ + Advance(font, text[i - 1])]
  <2>1. i - 1 \in 1 .. Len(text)
    BY <1>1, <1>4
  <2> QED
    BY <2>1, <1>1, <1>3, <1>4 DEF NextPen
<1>5. \A i \in 1 .. Len(text) + 1 : pens[i] \in Pen
  <2> DEFINE Bad == {i \in 1 .. Len(text) + 1 : pens[i] \notin Pen}
  <2> SUFFICES ASSUME Bad # {} PROVE FALSE
    OBVIOUS
  <2>1. Bad \subseteq Nat
    BY <1>1
  <2>2. PICK k \in Bad : \A j \in Bad : k <= j
    BY <2>1, Smallest
  <2>3. k # 1
    BY <1>1, <1>3
  <2>4. k - 1 \in 1 .. Len(text) /\ k - 1 \in 1 .. Len(text) + 1 /\ k - 1 < k
    BY <1>1, <1>4, <2>3
  <2>5. pens[k - 1] \in Pen
    BY <2>2, <2>4, <1>1
  <2>6. pens[k] = [pens[k - 1] EXCEPT !.x = @ + Advance(font, text[k - 1])]
    BY <1>4, <2>3
  <2>7. Advance(font, text[k - 1]) \in Nat
    BY <1>2, <2>4
  <2> QED
    BY <2>5, <2>6, <2>7
<1>6. ASSUME NEW i \in 1 .. Len(text) PROVE pens[i + 1].x = pens[i].x + Advance(font, text[i])
  <2>1. i + 1 \in 1 .. Len(text) + 1 /\ i + 1 # 1 /\ (i + 1) - 1 = i /\ i \in 1 .. Len(text) + 1
    BY <1>1
  <2>2. pens[i + 1] = [pens[i] EXCEPT !.x = @ + Advance(font, text[i])]
    BY <2>1, <1>4
  <2>3. pens[i] \in Pen
    BY <2>1, <1>5
  <2> QED
    BY <2>2, <2>3
<1>7. pens[1].x = 0
  BY <1>1, <1>3
<1> QED
  BY <1>2, <1>5, <1>6, <1>7 DEF pens

\* No pen is behind the last one.
LEMMA LastPen ==
  ASSUME NEW font, IsFont(font), NEW text, IsLine(text), NEW i \in 1 .. Len(text) + 1
  PROVE  Pens(font, text)[i].x <= Pens(font, text)[Len(text) + 1].x
<1> DEFINE pens == Pens(font, text)
<1>1. /\ Len(text) \in Nat
      /\ \A j \in 1 .. Len(text) + 1 : pens[j].x \in Nat
      /\ \A j \in 1 .. Len(text) : /\ Advance(font, text[j]) \in Nat
                                   /\ pens[j + 1].x = pens[j].x + Advance(font, text[j])
  BY LinePens DEF IsLine
<1> HIDE DEF pens
<1> DEFINE Bad == {k \in 0 .. Len(text) : ~(pens[Len(text) + 1 - k].x <= pens[Len(text) + 1].x)}
<1>2. Bad = {}
  <2> SUFFICES ASSUME Bad # {} PROVE FALSE
    OBVIOUS
  <2>1. Bad \subseteq Nat
    BY <1>1
  <2>2. PICK k \in Bad : \A j \in Bad : k <= j
    BY <2>1, Smallest
  <2>3. k # 0
    BY <1>1
  <2>4. k - 1 \in 0 .. Len(text) /\ k - 1 < k /\ k - 1 \in Nat
    BY <2>3, <1>1
  <2>5. k - 1 \notin Bad
    BY <2>2, <2>4
  <2> PICK j : j = Len(text) + 1 - k
    OBVIOUS
  <2>6. j \in 1 .. Len(text) /\ j + 1 = Len(text) + 1 - (k - 1)
    BY <2>3, <1>1
  <2>7. pens[j + 1].x <= pens[Len(text) + 1].x /\ pens[j + 1].x \in Nat /\ pens[j].x \in Nat
    BY <2>4, <2>5, <2>6, <1>1
  <2>8. pens[j].x <= pens[j + 1].x
    <3> PICK a : a = Advance(font, text[j])
      OBVIOUS
    <3>1. a \in Nat /\ pens[j + 1].x = pens[j].x + a
      BY <2>6, <1>1
    <3> QED
      BY <3>1, <2>7
  <2>9. pens[Len(text) + 1].x \in Nat
    <3>1. Len(text) + 1 \in 1 .. Len(text) + 1
      BY <1>1
    <3> QED
      BY <3>1, <1>1
  <2> QED
    BY <2>2, <2>7, <2>8, <2>9, SMTT(30)
<1>3. Len(text) + 1 - i \in 0 .. Len(text) /\ Len(text) + 1 - (Len(text) + 1 - i) = i
  BY <1>1
<1> QED
  BY <1>2, <1>3 DEF pens

\* The width of a line is where the pen ends.
LEMMA LineWidth ==
  ASSUME NEW font, IsFont(font), NEW text, IsLine(text)
  PROVE  /\ MeasureTextStringAtlas(font, text) = Pens(font, text)[Len(text) + 1].x
         /\ MeasureTextStringAtlas(font, text) \in Nat
<1> DEFINE last == Pens(font, text)[Len(text) + 1].x
           S == {Pens(font, text)[i].x : i \in 1 .. Len(text) + 1}
<1>1. Len(text) + 1 \in 1 .. Len(text) + 1
  BY DEF IsLine
<1>2. last \in S /\ last \in Nat
  BY <1>1, LinePens
<1>3. \A y \in S : y \in Nat /\ y <= last
  BY LinePens, LastPen
<1> HIDE DEF last, S
<1>4. \A y \in S : (\A z \in S : y >= z) => y = last
  BY <1>2, <1>3
<1>5. \A z \in S : last >= z
  BY <1>2, <1>3
<1>6. Max(S) = last
  BY <1>2, <1>4, <1>5 DEF Max
<1> QED
  BY <1>2, <1>6 DEF MeasureTextStringAtlas, last, S

\* The cells drawn for a line: a cell may reach behind the line by its width.
LEMMA GlyphsInLine ==
  ASSUME NEW font, IsFont(font), NEW text, IsLine(text), NEW x \in Int, NEW y \in Int,
         NEW b \in GlyphBoxes(font, x, y, text)
  PROVE  /\ b.X \in Int /\ b.Y = y /\ b.Width = font.width /\ b.Height = font.height
         /\ x <= b.X /\ b.X + b.Width <= x + MeasureTextStringAtlas(font, text) + font.width
<1>1. PICK i \in 1 .. Len(text) :
        b = [X |-> x + Pens(font, text)[i].x, Y |-> y + Pens(font, text)[i].line * font.height,
             Width |-> font.width, Height |-> font.height]
  BY DEF GlyphBoxes
<1>2. i \in 1 .. Len(text) + 1 /\ font.width \in Nat /\ font.height \in Nat
  BY DEF IsLine, IsFont
<1>3. Pens(font, text)[i].x \in Nat /\ Pens(font, text)[i].line = 0
  BY <1>2, LinePens
<1>4. /\ Pens(font, text)[i].x <= MeasureTextStringAtlas(font, text)
      /\ MeasureTextStringAtlas(font, text) \in Nat
  BY <1>2, LastPen, LineWidth
<1> QED
  BY <1>1, <1>2, <1>3, <1>4, SMTT(30)

-----------------------------------------------------------------------------
(* The scene.                                                              *)

\* A panel that leaves room for the scene.
RoomyPanel(p) ==
  /\ p.X \in Nat /\ p.Y \in Nat /\ p.Width \in Nat /\ p.Height \in Nat
  /\ p.Width >= 896 /\ p.Height >= 550
  /\ p.X + p.Width < WordRange /\ p.Y + p.Height < WordRange
  /\ p = Box(p.X, p.Y, p.Width, p.Height)

\* The part of the panel that is kept for each item of the scene.
Zone(p) ==
  [title |-> Box(p.X, p.Y, p.Width, 160),
   icon |-> Box(p.X, p.Y + 160, 438, p.Height - 194),
   prompt |-> Box(p.X + 438, p.Y + 160, p.Width - 438, 108),
   buttons |-> Box(p.X + 438, p.Y + 268, p.Width - 438, p.Height - 302),
   note |-> Box(p.X, p.Y + p.Height - 34, p.Width, 34)]

\* The items that must not hide each other.
Items == {"title", "icon", "prompt", "buttons", "note"}

\* A box with numbers as its edges.
IsBox(b) == b.X \in Int /\ b.Y \in Int /\ b.Width \in Int /\ b.Height \in Int

\* The zones are on the panel, and no two of them overlap.
LEMMA ZonesApart ==
  ASSUME NEW p, RoomyPanel(p), NEW one \in Items, NEW other \in Items
  PROVE  /\ IsBox(Zone(p)[one]) /\ Within(Zone(p)[one], p)
         /\ one # other => Disjoint(Zone(p)[one], Zone(p)[other])
BY DEF RoomyPanel, Zone, Items, IsBox, Within, Disjoint, Box

\* What is in boxes that do not overlap does not overlap.
LEMMA WithinApart ==
  ASSUME NEW a, NEW b, NEW A, NEW B, IsBox(a), IsBox(b), IsBox(A), IsBox(B),
         Within(a, A), Within(b, B), Disjoint(A, B)
  PROVE  Disjoint(a, b)
BY DEF IsBox, Within, Disjoint

\* Within is transitive.
LEMMA WithinWithin ==
  ASSUME NEW a, NEW b, NEW c, IsBox(a), IsBox(b), IsBox(c), Within(a, b), Within(b, c)
  PROVE  Within(a, c)
BY DEF IsBox, Within

\* InitializeSetupUiState's panel on a screen the scene is made for.
LEMMA PanelIsRoomy ==
  ASSUME NEW w \in 1 .. WordRange - 1, NEW h \in 1 .. WordRange - 1, w >= 1024, h >= 640
  PROVE  RoomyPanel(PanelOf(w, h))
<1> DEFINE mx == AtLeast(48, w \div 16)
           my == AtLeast(44, h \div 14)
<1>1. w \in Nat /\ w < WordRange /\ h \in Nat /\ h < WordRange
  BY ScreenAssumption
<1>2. /\ w \div 16 \in Nat /\ 16 * (w \div 16) <= w /\ w < 16 * (w \div 16) + 16
      /\ h \div 14 \in Nat /\ 14 * (h \div 14) <= h /\ h < 14 * (h \div 14) + 14
  BY <1>1
<1> PICK q : q = w \div 16
  OBVIOUS
<1> PICK r : r = h \div 14
  OBVIOUS
<1>9. q \in Nat /\ 16 * q <= w /\ w < 16 * q + 16 /\ r \in Nat /\ 14 * r <= h /\ h < 14 * r + 14
  BY <1>2
<1>10. q >= 64 /\ r >= 45
  BY <1>9, <1>1
<1>11. mx = q /\ my = r
  BY <1>9, <1>10 DEF AtLeast
<1> HIDE DEF mx, my
<1>3. mx \in Nat /\ w - 2 * mx >= 896 /\ w - 2 * mx < WordRange
  BY <1>1, <1>9, <1>10, <1>11, ScreenAssumption
<1>4. my \in Nat /\ h - 2 * my >= 550 /\ h - 2 * my < WordRange
  BY <1>1, <1>9, <1>10, <1>11, ScreenAssumption
<1>5. w - 2 * mx \in Nat /\ h - 2 * my \in Nat
  BY <1>1, <1>3, <1>4
<1>6. mx + (w - 2 * mx) < WordRange /\ my + (h - 2 * my) < WordRange
  BY <1>1, <1>3, <1>4, ScreenAssumption
<1>7. Minus(w, 2 * mx) = w - 2 * mx /\ Minus(h, 2 * my) = h - 2 * my
  BY <1>3, <1>4, <1>5, NoWrap DEF Minus
<1>8. PanelOf(w, h) = Box(mx, my, w - 2 * mx, h - 2 * my)
  BY <1>7 DEF PanelOf, mx, my
<1> QED
  BY <1>3, <1>4, <1>5, <1>6, <1>8 DEF RoomyPanel, Box

\* C's half of a number that is not negative.
LEMMA HalfOf ==
  ASSUME NEW n \in Nat
  PROVE  Half(n) \in Nat /\ 2 * Half(n) <= n /\ n <= 2 * Half(n) + 1
BY DEF Half

\* The title with its outline is above row 160 of the panel.
LEMMA TitleInZone ==
  ASSUME NEW p, RoomyPanel(p), NEW b \in TitleBoxes(p)
  PROVE  IsBox(b) /\ Within(b, Zone(p).title)
<1> DEFINE m == MeasureTextStringAtlas(TitleFont, TitleText)
           x == CenteredX(TitleFont, TitleText, p.X, p.Width)
<1>1. /\ IsFont(TitleFont) /\ IsLine(TitleText) /\ TitleFont.width \in Nat
      /\ TitleFont.height \in Nat /\ TitleFont.height <= 109
      /\ m + 2 * TitleFont.width + 8 <= 896
  BY FontAssumption, AssetsAssumption DEF IsFont
<1>2. m \in Nat
  BY <1>1, LineWidth
<1>3. x = p.X + Half(p.Width - m)
  BY DEF CenteredX
<1>4. PICK g \in GlyphBoxes(TitleFont, x, p.Y + 48, TitleText) :
        b = Box(g.X - 3, g.Y - 3, g.Width + 6, g.Height + 6)
  BY DEF TitleBoxes
<1> HIDE DEF m, x
<1>5. p.X \in Nat /\ p.Y \in Nat /\ p.Width \in Nat /\ p.Width >= 896
  BY DEF RoomyPanel
<1>6. p.Width - m \in Nat
  BY <1>1, <1>2, <1>5
<1> DEFINE half == Half(p.Width - m)
<1>7. half \in Nat /\ 2 * half <= p.Width - m /\ p.Width - m <= 2 * half + 1
  BY <1>6, HalfOf
<1> HIDE DEF half
<1>8. x = p.X + half /\ x \in Int /\ p.Y + 48 \in Int
  BY <1>3, <1>5, <1>7 DEF half
<1>9. /\ g.X \in Int /\ g.Y = p.Y + 48 /\ g.Width = TitleFont.width
      /\ g.Height = TitleFont.height /\ x <= g.X /\ g.X + g.Width <= x + m + TitleFont.width
  BY <1>1, <1>8, GlyphsInLine DEF m
<1> QED
  BY <1>1, <1>2, <1>4, <1>5, <1>7, <1>8, <1>9 DEF IsBox, Within, Zone, Box

\* The icon is to the left of the prompt and the buttons, and above the note.
LEMMA IconInZone ==
  ASSUME NEW p, RoomyPanel(p)
  PROVE  IsBox(IconBox(p)) /\ Within(IconBox(p), Zone(p).icon)
<1> DEFINE h == IconDrawHeight(p)
<1>1. p.X \in Nat /\ p.Y \in Nat /\ p.Height \in Nat /\ p.Height >= 550
  BY DEF RoomyPanel
<1>2. Min({420, p.Height - 250}) = IF 420 <= p.Height - 250 THEN 420 ELSE p.Height - 250
  BY <1>1, MinOfTwo
<1>3. h = AtLeast(200, Min({420, p.Height - 250}))
  BY <1>1 DEF IconDrawHeight
<1>4. h \in Nat /\ h <= 420 /\ h <= p.Height - 250
  BY <1>1, <1>2, <1>3 DEF AtLeast
<1> HIDE DEF h
<1>5. /\ SETUP_ICON_WIDTH \in Nat \ {0} /\ SETUP_ICON_HEIGHT \in Nat \ {0}
      /\ 420 * SETUP_ICON_WIDTH <= 380 * SETUP_ICON_HEIGHT
  BY ImageAssumption, AssetsAssumption
<1>6. SETUP_ICON_WIDTH * h <= SETUP_ICON_WIDTH * 420 /\ SETUP_ICON_WIDTH * h \in Nat
  BY <1>4, <1>5, Z3
<1> PICK a : a = SETUP_ICON_WIDTH * h
  OBVIOUS
<1>7. a \in Nat /\ a <= 380 * SETUP_ICON_HEIGHT
  BY <1>5, <1>6
<1>8. a \div SETUP_ICON_HEIGHT \in Nat /\ a \div SETUP_ICON_HEIGHT <= 380
  BY <1>5, <1>7, Z3
<1> PICK w : w = a \div SETUP_ICON_HEIGHT
  OBVIOUS
<1>9. IconBox(p) = Box(p.X + 58, p.Y + 160, w, h) /\ w \in Nat /\ w <= 380
  BY <1>8 DEF IconBox, h
<1> QED
  BY <1>1, <1>4, <1>9 DEF IsBox, Within, Zone, Box

\* A font one of the builds may have made.
IsUiFont(font) == \E d \in Displays : font = d.font

\* The prompt, where it is not wider than its zone, is above the buttons.
LEMMA PromptInZone ==
  ASSUME NEW p, RoomyPanel(p), IsUiFont(uiFont), NEW b \in PromptBoxes(p),
         MeasureTextStringAtlas(uiFont, PromptText) <= RightZoneWidth(p)
  PROVE  IsBox(b) /\ Within(b, Zone(p).prompt)
<1> PICK m : m = MeasureTextStringAtlas(uiFont, PromptText)
  OBVIOUS
<1> PICK zx : zx = RightZoneX(p)
  OBVIOUS
<1> PICK zw : zw = RightZoneWidth(p)
  OBVIOUS
<1>1. /\ IsFont(uiFont) /\ IsLine(PromptText) /\ uiFont.width \in Nat /\ uiFont.width <= 48
      /\ uiFont.height \in Nat /\ uiFont.height <= 58
  BY FontAssumption, AssetsAssumption DEF IsFont, IsUiFont
<1>2. m \in Nat
  BY <1>1, LineWidth
<1>3. p.X \in Nat /\ p.Y \in Nat /\ p.Width \in Nat /\ p.Width >= 896
  BY DEF RoomyPanel
<1>4. /\ zx \in Nat /\ zx >= p.X + 438 /\ zw \in Int /\ zx + zw = p.X + p.Width - 48
  BY <1>3 DEF RightZoneX, RightZoneWidth
<1>5. zw - m \in Nat
  BY <1>2, <1>4
<1> PICK half : half = Half(zw - m)
  OBVIOUS
<1>6. half \in Nat /\ 2 * half <= zw - m
  BY <1>5, HalfOf
<1> PICK x : x = CenteredX(uiFont, PromptText, zx, zw)
  OBVIOUS
<1>7. x = zx + half /\ x \in Int /\ p.Y + 210 \in Int
  BY <1>3, <1>4, <1>6 DEF CenteredX
<1>8. b \in GlyphBoxes(uiFont, x, p.Y + 210, PromptText)
  BY DEF PromptBoxes
<1>9. /\ b.X \in Int /\ b.Y = p.Y + 210 /\ b.Width = uiFont.width /\ b.Height = uiFont.height
      /\ x <= b.X /\ b.X + b.Width <= x + m + uiFont.width
  BY <1>1, <1>7, <1>8, GlyphsInLine
<1> QED
  BY <1>1, <1>2, <1>3, <1>4, <1>6, <1>7, <1>9 DEF IsBox, Within, Zone, Box

\* The note is in the last 34 rows.
LEMMA NoteInZone ==
  ASSUME NEW p, RoomyPanel(p), NEW b \in NoteBoxes(p)
  PROVE  IsBox(b) /\ Within(b, Zone(p).note)
<1> PICK m : m = MeasureTextStringAtlas(NoteFont, NoteText)
  OBVIOUS
<1>1. /\ IsFont(NoteFont) /\ IsLine(NoteText) /\ NoteFont.width \in Nat
      /\ NoteFont.height \in Nat /\ NoteFont.height <= 34
      /\ m + NoteFont.width + 34 <= 896
  BY FontAssumption, AssetsAssumption DEF IsFont
<1>2. m \in Nat
  BY <1>1, LineWidth
<1>3. /\ p.X \in Nat /\ p.Y \in Nat /\ p.Width \in Nat /\ p.Width >= 896
      /\ p.Height \in Nat /\ p.Height >= 550
  BY DEF RoomyPanel
<1>4. b \in GlyphBoxes(NoteFont, p.X + 34, p.Y + p.Height - 34, NoteText)
  BY DEF NoteBoxes
<1>5. p.X + 34 \in Int /\ p.Y + p.Height - 34 \in Int
  BY <1>3
<1>6. /\ b.X \in Int /\ b.Y = p.Y + p.Height - 34 /\ b.Width = NoteFont.width
      /\ b.Height = NoteFont.height
      /\ p.X + 34 <= b.X /\ b.X + b.Width <= p.X + 34 + m + NoteFont.width
  BY <1>1, <1>4, <1>5, GlyphsInLine
<1> QED
  BY <1>1, <1>2, <1>3, <1>6 DEF IsBox, Within, Zone, Box

\* The buttons are below the prompt, beside the icon and above the note.
LEMMA ButtonInZone ==
  ASSUME NEW p, RoomyPanel(p), NEW b \in {InstallButtonOf(p), TryButtonOf(InstallButtonOf(p))}
  PROVE  /\ IsBox(b) /\ Within(b, Zone(p).buttons)
         /\ b.Width >= 240 /\ b.Height = 64
<1>1. /\ p.X \in Nat /\ p.Y \in Nat /\ p.Width \in Nat /\ p.Width >= 896
      /\ p.Height \in Nat /\ p.Height >= 550
      /\ p.X + p.Width < WordRange /\ p.Y + p.Height < WordRange
      /\ p = Box(p.X, p.Y, p.Width, p.Height)
  BY DEF RoomyPanel
<1> SUFFICES ASSUME NEW x \in Nat, NEW y \in Nat, NEW w \in Nat, NEW h \in Nat,
                    w >= 896, h >= 550, x + w < WordRange, y + h < WordRange,
                    p = Box(x, y, w, h)
             PROVE  /\ IsBox(b) /\ Within(b, Zone(p).buttons)
                    /\ b.Width >= 240 /\ b.Height = 64
  BY <1>1
<1> DEFINE bw == AtLeast(240, w \div 4)
<1>2. /\ InstallButtonOf(Box(x, y, w, h)) = Box(x + w - bw - 72, y + h - 282, bw, 64)
      /\ TryButtonOf(InstallButtonOf(Box(x, y, w, h)))
           = Box(x + w - bw - 72, y + h - 184, bw, 64)
  BY ButtonPlaces
<1>3. bw \in Nat /\ bw >= 240 /\ 4 * bw <= w + 72
  <2>1. w \div 4 \in Nat /\ 4 * (w \div 4) <= w
    OBVIOUS
  <2> QED
    BY <2>1 DEF AtLeast
<1> HIDE DEF bw
<1>4. \/ b = Box(x + w - bw - 72, y + h - 282, bw, 64)
      \/ b = Box(x + w - bw - 72, y + h - 184, bw, 64)
  BY <1>2
<1> QED
  BY <1>3, <1>4 DEF IsBox, Within, Zone, Box

\* A label is inside its button.
LEMMA LabelInButton ==
  ASSUME IsUiFont(uiFont), NEW button, IsBox(button), button.Width >= 240, button.Height = 64,
         NEW text \in {InstallText, TryText}, NEW b \in LabelBoxes(button, text)
  PROVE  IsBox(b) /\ Within(b, button)
<1> PICK m : m = MeasureTextStringAtlas(uiFont, text)
  OBVIOUS
<1>1. /\ IsFont(uiFont) /\ IsLine(text) /\ uiFont.width \in Nat
      /\ uiFont.height \in Nat /\ uiFont.height <= 58 /\ m + 2 * uiFont.width <= 240
  <2> PICK d \in Displays : uiFont = d.font
    BY DEF IsUiFont
  <2>1. IsFont(uiFont) /\ IsLine(text)
    BY FontAssumption
  <2>2. uiFont.width \in Nat /\ uiFont.height \in Nat
    BY <2>1 DEF IsFont
  <2>3. uiFont.height <= 58
    BY AssetsAssumption
  <2>4. m + 2 * uiFont.width <= 240
    BY AssetsAssumption
  <2> QED
    BY <2>1, <2>2, <2>3, <2>4
<1>2. m \in Nat
  BY <1>1, LineWidth
<1>3. button.Width - m \in Nat /\ button.Height - uiFont.height \in Nat /\ button.X \in Int
      /\ button.Y \in Int
  BY <1>1, <1>2 DEF IsBox
<1> PICK half : half = Half(button.Width - m)
  OBVIOUS
<1> PICK halfY : halfY = Half(button.Height - uiFont.height)
  OBVIOUS
<1>4. /\ half \in Nat /\ 2 * half <= button.Width - m /\ button.Width - m <= 2 * half + 1
      /\ halfY \in Nat /\ 2 * halfY <= button.Height - uiFont.height
  BY <1>3, HalfOf
<1> PICK x : x = CenteredX(uiFont, text, button.X, button.Width)
  OBVIOUS
<1> PICK y : y = button.Y + halfY
  OBVIOUS
<1>5. x = button.X + half /\ x \in Int /\ y \in Int
  BY <1>3, <1>4 DEF CenteredX
<1>6. b \in GlyphBoxes(uiFont, x, y, text)
  BY DEF LabelBoxes
<1>7. /\ b.X \in Int /\ b.Y = y /\ b.Width = uiFont.width /\ b.Height = uiFont.height
      /\ x <= b.X /\ b.X + b.Width <= x + m + uiFont.width
  BY <1>1, <1>5, <1>6, GlyphsInLine
<1> QED
  BY <1>1, <1>2, <1>3, <1>4, <1>5, <1>7 DEF IsBox, Within
\* The font drawn with is one of the builds'.
LEMMA FontStays == BootSpec => []IsUiFont(uiFont)
<1>1. BootInit => IsUiFont(uiFont)
  BY DEF BootInit, IsUiFont
<1>2. IsUiFont(uiFont) /\ [BootNext]_bootVars => IsUiFont(uiFont)'
  <2>1. [BootNext]_bootVars => uiFont' = uiFont
    BY ZenonT(40) DEF BootNext, ClearBeforeSplash, SplashFrame, ClearAfterSplash, LoaderText, SearchOn,
           SearchEnds, LayOut, DrawPanel, OutlinePass, DrawTitleAndItems, bootVars, screenVars, display
  <2> QED
    BY <2>1 DEF IsUiFont
<1> QED
  BY <1>1, <1>2, PTL DEF BootSpec

\* Every item of the scene is in its zone.
LEMMA SceneInZones ==
  ASSUME RoomyPanel(Panel), IsUiFont(uiFont), InstallButton = InstallButtonOf(Panel),
         TryButton = TryButtonOf(InstallButton),
         MeasureTextStringAtlas(uiFont, PromptText) <= RightZoneWidth(Panel),
         NEW name \in Items, NEW b \in Scene[name]
  PROVE  IsBox(b) /\ Within(b, Zone(Panel)[name])
<1>1. CASE name = "title"
  BY <1>1, TitleInZone DEF Scene
<1>2. CASE name = "icon"
  BY <1>2, IconInZone DEF Scene
<1>3. CASE name = "prompt"
  BY <1>3, PromptInZone DEF Scene
<1>4. CASE name = "buttons"
  BY <1>4, ButtonInZone DEF Scene
<1>5. CASE name = "note"
  BY <1>5, NoteInZone DEF Scene
<1> QED
  BY <1>1, <1>2, <1>3, <1>4, <1>5 DEF Items

\* For every screen of at least 1024 by 640 pixels on which the prompt fits into its
\* zone, and all assets the positions in DrawSetupScreen are made for, nothing of the
\* setup scene leaves the panel, nothing hides anything else, and the labels are
\* inside their buttons.
THEOREM SceneStaysUncluttered == BootSpec => []SceneUncluttered
<1>1. SceneInv /\ IsUiFont(uiFont) => SceneUncluttered
  <2> SUFFICES ASSUME SceneInv, IsUiFont(uiFont), step = "done", Roomy
               PROVE  /\ \A name \in DOMAIN Scene : \A b \in Scene[name] : Within(b, Panel)
                      /\ \A one, other \in Items :
                           one # other => \A a \in Scene[one], b \in Scene[other] : Disjoint(a, b)
                      /\ \A b \in Scene.install : Within(b, InstallButton)
                      /\ \A b \in Scene.try : Within(b, TryButton)
    BY DEF SceneUncluttered, Items
  <2>1. /\ ScreenWidth \in 1 .. WordRange - 1 /\ ScreenHeight \in 1 .. WordRange - 1
        /\ Panel = PanelOf(ScreenWidth, ScreenHeight)
        /\ InstallButton = InstallButtonOf(Panel) /\ TryButton = TryButtonOf(InstallButton)
    BY DEF SceneInv, IInv
  <2>2. RoomyPanel(Panel)
    BY <2>1, PanelIsRoomy DEF Roomy
  <2>3. MeasureTextStringAtlas(uiFont, PromptText) <= RightZoneWidth(Panel)
    BY DEF Roomy
  <2>4. IsBox(Panel)
    BY <2>2 DEF RoomyPanel, IsBox
  <2>5. ASSUME NEW name \in Items, NEW b \in Scene[name]
        PROVE  IsBox(b) /\ Within(b, Zone(Panel)[name]) /\ Within(b, Panel)
    <3>1. IsBox(b) /\ Within(b, Zone(Panel)[name])
      BY <2>1, <2>2, <2>3, SceneInZones
    <3>2. IsBox(Zone(Panel)[name]) /\ Within(Zone(Panel)[name], Panel)
      BY <2>2, ZonesApart
    <3> QED
      BY <2>4, <3>1, <3>2, WithinWithin
  <2>6. /\ IsBox(InstallButton) /\ InstallButton.Width >= 240 /\ InstallButton.Height = 64
        /\ IsBox(TryButton) /\ TryButton.Width >= 240 /\ TryButton.Height = 64
    BY <2>1, <2>2, ButtonInZone
  <2>7. Within(InstallButton, Panel) /\ Within(TryButton, Panel)
    <3>1. "buttons" \in Items /\ Scene["buttons"] = {InstallButton, TryButton}
      BY DEF Items, Scene
    <3> QED
      BY <2>5, <3>1
  <2>8. ASSUME NEW b \in Scene.install
        PROVE  Within(b, InstallButton) /\ Within(b, Panel)
    <3>1. b \in LabelBoxes(InstallButton, InstallText)
      BY DEF Scene
    <3>2. IsBox(b) /\ Within(b, InstallButton)
      BY <2>6, <3>1, LabelInButton
    <3> QED
      BY <2>4, <2>6, <2>7, <3>2, WithinWithin
  <2>9. ASSUME NEW b \in Scene.try
        PROVE  Within(b, TryButton) /\ Within(b, Panel)
    <3>1. b \in LabelBoxes(TryButton, TryText)
      BY DEF Scene
    <3>2. IsBox(b) /\ Within(b, TryButton)
      BY <2>6, <3>1, LabelInButton
    <3> QED
      BY <2>4, <2>6, <2>7, <3>2, WithinWithin
  <2>10. ASSUME NEW name \in DOMAIN Scene, NEW b \in Scene[name]
         PROVE  Within(b, Panel)
    <3>1. name \in Items \/ name = "install" \/ name = "try"
      BY DEF Scene, Items
    <3>2. CASE name = "install"
      BY <2>8, <3>2
    <3>3. CASE name = "try"
      BY <2>9, <3>3
    <3> QED
      BY <2>5, <3>1, <3>2, <3>3
  <2>11. ASSUME NEW one \in Items, NEW other \in Items, one # other,
                NEW a \in Scene[one], NEW b \in Scene[other]
         PROVE  Disjoint(a, b)
    <3>1. /\ IsBox(a) /\ Within(a, Zone(Panel)[one])
          /\ IsBox(b) /\ Within(b, Zone(Panel)[other])
      BY <2>5
    <3>2. /\ IsBox(Zone(Panel)[one]) /\ IsBox(Zone(Panel)[other])
          /\ Disjoint(Zone(Panel)[one], Zone(Panel)[other])
      BY <2>2, <2>11, ZonesApart
    <3> QED
      BY <3>1, <3>2, WithinApart
  <2> QED
    BY <2>8, <2>9, <2>10, <2>11
<1> QED
  BY <1>1, SceneInvInductive, FontStays, PTL
=============================================================================
