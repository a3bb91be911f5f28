------------------------- MODULE VideoPresenterProofs -------------------------
(***************************************************************************)
(* The painter of VideoPresenter, for any number of sessions, pictures,    *)
(* textures and targets.                                                   *)
(***************************************************************************)
EXTENDS VideoPresenter, TLAPS

USE DEF NoPicture

-----------------------------------------------------------------------------
(* The slot and the callbacks of SwapBuffers. *)

SlotInv ==
  /\ m_IsPainting \in BOOLEAN /\ m_HasNextPicture \in BOOLEAN
  /\ SlotWaitsForPaint

LEMMA PaintKeepsSlot ==
  ASSUME NEW next, NEW held, NEW pending, pending = 0, PaintPicture(next, held, pending)
  PROVE  SlotInv'
<1>1. CASE next.target = 0
  BY <1>1 DEF PaintPicture, SlotInv, SlotWaitsForPaint
<1>2. CASE next.target # 0
  <2>1. m_IsPainting' = TRUE /\ m_HasNextPicture' = FALSE
    BY <1>2 DEF PaintPicture
  <2>2. swaps' = 1
    BY <1>2 DEF PaintPicture
  <2>3. QED BY <2>1, <2>2 DEF SlotInv, SlotWaitsForPaint
<1>3. QED BY <1>1, <1>2

LEMMA SlotInit == Init => SlotInv
  BY DEF Init, SlotInv, SlotWaitsForPaint

LEMMA SlotStep == SlotInv /\ [Next]_vars => SlotInv'
<1> SUFFICES ASSUME SlotInv, [Next]_vars PROVE SlotInv'
  OBVIOUS
<1>a. (m_IsPainting <=> swaps = 1) /\ swaps \in {0, 1} /\ (~m_IsPainting => swaps = 0 /\ ~m_HasNextPicture)
  BY DEF SlotInv, SlotWaitsForPaint
<1>f. ASSUME UNCHANGED <<pictureVars, swaps>> PROVE SlotInv'
  BY <1>f DEF SlotInv, SlotWaitsForPaint, pictureVars
<1>1. CASE InitializeRenderingSurface
  BY <1>f, <1>1 DEF InitializeRenderingSurface
<1>2. ASSUME NEW i \in BOOLEAN, VidDecSetup(i) PROVE SlotInv'
  BY <1>f, <1>2 DEF VidDecSetup
<1>3. CASE DeleteDecoder
  BY <1>f, <1>3 DEF DeleteDecoder
<1>4. CASE DeleteSurface
  BY <1>f, <1>4 DEF DeleteSurface
<1>5. ASSUME NEW s \in 1..SESSIONS, DispatchGetPicture(s) PROVE SlotInv'
  BY <1>f, <1>5 DEF DispatchGetPicture
<1>6. ASSUME NEW g \in Targets \cup {0}, NEW t \in Textures, PictureReady(g, t) PROVE SlotInv'
  <2>1. CASE m_IsPainting
    BY <1>a, <1>6, <2>1 DEF PictureReady, SlotInv, SlotWaitsForPaint
  <2>2. CASE ~m_IsPainting
    BY <1>a, <1>6, <2>2, PaintKeepsSlot DEF PictureReady
  <2>3. QED BY <2>1, <2>2
<1>7. CASE PaintFinished
  <2>0. swaps = 1
    BY <1>a, <1>7 DEF PaintFinished
  <2>1. CASE m_HasNextPicture
    <3>1. swaps - 1 = 0
      BY <2>0
    <3>2. QED BY <1>7, <2>1, <3>1, PaintKeepsSlot DEF PaintFinished
  <2>2. CASE ~m_HasNextPicture
    <3>1. m_IsPainting' = FALSE /\ m_HasNextPicture' = m_HasNextPicture
      BY <1>7, <2>2 DEF PaintFinished
    <3>2. swaps' = 0
      BY <1>7, <2>0, <2>2 DEF PaintFinished
    <3>3. QED BY <2>2, <3>1, <3>2 DEF SlotInv, SlotWaitsForPaint
  <2>3. QED BY <2>1, <2>2
<1>8. CASE UNCHANGED vars
  BY <1>f, <1>8 DEF vars, pictureVars
<1>9. QED BY <1>1, <1>2, <1>3, <1>4, <1>5, <1>6, <1>7, <1>8 DEF Next

(* A picture waits only for a paint that has a callback on its way, for    *)
(* any number of sessions and wherever they end.                           *)
THEOREM SlotIsTaken == Spec => []SlotWaitsForPaint
<1>1. SlotInv => SlotWaitsForPaint
  BY DEF SlotInv
<1>2. QED BY SlotInit, SlotStep, <1>1, PTL DEF Spec

-----------------------------------------------------------------------------
(* The pictures a decoder has handed out. *)

Held == {p \in {m_NextPicture} : m_HasNextPicture} \cup {p \in {m_CurrentPicture} : m_IsPainting}
HeldOf(d) == {p \in Held : p.session = d}

SessionsInv ==
  /\ phase \in {"idle", "surface", "running", "deleted"}
  /\ session \in Nat /\ m_VideoDecoder \in Nat /\ m_VideoDecoder <= session
  /\ phase # "idle" => session > 0
  /\ phase = "running" => m_VideoDecoder = session
  /\ \A p \in Held : p.session \in 1..session /\ (phase = "surface" => p.session < session)
  /\ phase # "running" => HeldOf(m_VideoDecoder) = {}

HandedOutInv ==
  ~stale /\ m_VideoDecoder # 0 =>
    /\ out = HeldOf(m_VideoDecoder)
    /\ \A p \in out, q \in out : p.texture = q.texture => p = q
    /\ m_HasNextPicture /\ m_IsPainting /\ m_NextPicture.session = m_VideoDecoder
         => m_NextPicture # m_CurrentPicture
    /\ m_HasNextPicture /\ m_NextPicture.session = m_VideoDecoder => m_NextPicture.n = made

PictureInv == SlotInv /\ SessionsInv /\ HandedOutInv /\ stale \in BOOLEAN

LEMMA PictureInit == Init => PictureInv
<1> SUFFICES ASSUME Init PROVE PictureInv
  OBVIOUS
<1>1. SlotInv
  BY SlotInit
<1>2. Held = {}
  BY DEF Init, Held
<1>3. SessionsInv
  <2>1. phase = "idle" /\ session = 0 /\ m_VideoDecoder = 0
    BY DEF Init
  <2>2. QED BY <1>2, <2>1 DEF SessionsInv, HeldOf
<1>4. HandedOutInv
  BY DEF Init, HandedOutInv
<1>5. stale \in BOOLEAN
  BY DEF Init
<1>6. QED BY <1>1, <1>3, <1>4, <1>5 DEF PictureInv

(* What PaintPicture leaves held is at most the picture it paints. *)
LEMMA PaintHolds ==
  ASSUME NEW next, NEW held, NEW pending, PaintPicture(next, held, pending)
  PROVE  /\ Held' \subseteq {next} /\ m_HasNextPicture' = FALSE
         /\ next.target = 0 => Held' = {} /\ out' = Recycled(held, next)
         /\ next.target # 0 => Held' = {next} /\ out' = held
<1>1. m_CurrentPicture' = next /\ ~m_HasNextPicture'
  BY DEF PaintPicture
<1>2. CASE next.target = 0
  <2>1. ~m_IsPainting' /\ out' = Recycled(held, next)
    BY <1>2 DEF PaintPicture
  <2>2. QED BY <1>1, <1>2, <2>1 DEF Held, PaintPicture
<1>3. CASE next.target # 0
  <2>1. m_IsPainting' /\ out' = held
    BY <1>3 DEF PaintPicture
  <2>2. QED BY <1>1, <1>3, <2>1 DEF Held, PaintPicture
<1>4. QED BY <1>2, <1>3

(* A decoder's new picture joins those it has handed out, and replaces the *)
(* one in the slot.                                                        *)
LEMMA ReadyKeepsPictures ==
  ASSUME PictureInv, SlotInv', NEW target \in Targets \cup {0}, NEW texture \in Textures,
         PictureReady(target, texture)
  PROVE  PictureInv'
<1> DEFINE picture == [session |-> m_VideoDecoder, n |-> made + 1, target |-> target,
                       texture |-> texture]
           kept == IF m_HasNextPicture THEN Recycled(out, m_NextPicture) ELSE out
<1>0. /\ phase = "running" /\ m_VideoDecoder = session /\ session \in Nat /\ session > 0
      /\ \A p \in Held : p.session \in 1..session
      /\ UNCHANGED <<session, phase, m_VideoDecoder>>
      /\ m_NextPicture' = picture /\ made' = made + 1
      /\ \A p \in out : p.texture # texture
  BY DEF PictureInv, SessionsInv, PictureReady, sessionVars
<1>1. stale \in BOOLEAN /\ stale' \in BOOLEAN
  BY DEF PictureInv, PictureReady
<1>2. /\ m_IsPainting => Held' = {picture, m_CurrentPicture} /\ out' = kept \cup {picture}
      /\ ~m_IsPainting => PaintPicture(picture, kept \cup {picture}, swaps)
  <2>1. CASE m_IsPainting
    <3>1. /\ m_HasNextPicture' /\ m_IsPainting' = m_IsPainting
          /\ m_CurrentPicture' = m_CurrentPicture /\ out' = kept \cup {picture}
      BY <2>1 DEF PictureReady
    <3>2. QED BY <1>0, <2>1, <3>1 DEF Held
  <2>2. CASE ~m_IsPainting
    BY <2>2 DEF PictureReady
  <2>3. QED BY <2>1, <2>2
<1>3. Held' \subseteq Held \cup {picture}
  <2>1. m_IsPainting => m_CurrentPicture \in Held
    BY DEF Held
  <2>2. QED BY <1>2, <2>1, PaintHolds
<1>4. SessionsInv'
  <2>1. picture.session \in 1..session
    BY <1>0
  <2>2. QED BY <1>0, <1>3, <2>1 DEF PictureInv, SessionsInv
<1>5. HandedOutInv'
  <2> SUFFICES ASSUME ~stale' PROVE HandedOutInv'
    BY DEF HandedOutInv
  <2>1. ~stale /\ (m_HasNextPicture => m_NextPicture.session = m_VideoDecoder)
    BY DEF PictureReady
  <2>2. /\ out = HeldOf(m_VideoDecoder)
        /\ \A p \in out, q \in out : p.texture = q.texture => p = q
        /\ m_HasNextPicture /\ m_IsPainting /\ m_NextPicture.session = m_VideoDecoder
             => m_NextPicture # m_CurrentPicture
    BY <1>0, <2>1 DEF PictureInv, HandedOutInv
  <2>3. kept = {p \in {m_CurrentPicture} : m_IsPainting /\ p.session = m_VideoDecoder}
    <3>1. CASE m_HasNextPicture
      <4>1. m_NextPicture \in out
        BY <2>1, <2>2, <3>1 DEF HeldOf, Held
      <4>2. kept = out \ {m_NextPicture}
        BY <2>2, <3>1, <4>1 DEF Recycled
      <4>3. QED BY <2>1, <2>2, <3>1, <4>2 DEF HeldOf, Held
    <3>2. CASE ~m_HasNextPicture
      BY <2>2, <3>2 DEF HeldOf, Held
    <3>3. QED BY <3>1, <3>2
  <2>4. \A p \in kept : p.texture # texture /\ p \in out
    BY <1>0 DEF Recycled
  <2>5. CASE m_IsPainting
    <3>1. /\ m_IsPainting' /\ m_CurrentPicture' = m_CurrentPicture
          /\ Held' = {picture, m_CurrentPicture} /\ out' = kept \cup {picture}
      BY <1>2, <2>5 DEF PictureReady
    <3>2. picture.session = m_VideoDecoder /\ picture.texture = texture /\ picture.n = made'
      BY <1>0
    <3>3. out' = {p \in Held' : p.session = m_VideoDecoder'}
      BY <1>0, <2>3, <2>5, <3>1, <3>2
    <3>4. \A p \in out', q \in out' : p.texture = q.texture => p = q
      BY <2>2, <2>4, <3>1, <3>2
    <3>5. m_CurrentPicture.session = m_VideoDecoder => m_CurrentPicture # picture
      BY <2>3, <2>4, <2>5, <3>2
    <3>6. QED BY <1>0, <3>1, <3>2, <3>3, <3>4, <3>5 DEF HandedOutInv, HeldOf
  <2>6. CASE ~m_IsPainting
    <3>1. kept = {} /\ PaintPicture(picture, {picture}, swaps)
      BY <1>2, <2>3, <2>6
    <3>2. picture.session = m_VideoDecoder /\ picture.target = target
      OBVIOUS
    <3>3. /\ target = 0 => Held' = {} /\ out' = {}
          /\ target # 0 => Held' = {picture} /\ out' = {picture}
          /\ m_HasNextPicture' = FALSE
      <4>1. Recycled({picture}, picture) = {}
        BY DEF Recycled
      <4> HIDE DEF picture
      <4>2. /\ picture.target = 0 => Held' = {} /\ out' = Recycled({picture}, picture)
            /\ picture.target # 0 => Held' = {picture} /\ out' = {picture}
            /\ m_HasNextPicture' = FALSE
        BY <3>1, PaintHolds
      <4>3. QED BY <3>2, <4>1, <4>2
    <3>4. out' = {p \in Held' : p.session = m_VideoDecoder'}
      BY <1>0, <3>2, <3>3
    <3>5. \A p \in out', q \in out' : p = q
      BY <3>3
    <3>6. QED BY <3>3, <3>4, <3>5 DEF HandedOutInv, HeldOf
  <2>7. QED BY <2>5, <2>6
<1>6. QED BY <1>1, <1>4, <1>5 DEF PictureInv

(* The painted picture leaves, and the one in the slot takes its place. *)
LEMMA PaintedKeepsPictures ==
  ASSUME PictureInv, SlotInv', PaintFinished
  PROVE  PictureInv'
<1> DEFINE held == Recycled(out, m_CurrentPicture)
<1>0. /\ UNCHANGED <<session, phase, m_VideoDecoder, made, m_NextPicture>>
      /\ m_IsPainting /\ stale \in BOOLEAN /\ stale' \in BOOLEAN
  <2>1. m_IsPainting
    BY DEF PictureInv, SlotInv, SlotWaitsForPaint, PaintFinished
  <2>2. QED BY <2>1 DEF PictureInv, PaintFinished, sessionVars
<1>1. /\ m_HasNextPicture => PaintPicture(m_NextPicture, held, swaps - 1)
      /\ ~m_HasNextPicture => Held' = {} /\ out' = held /\ ~m_HasNextPicture'
  <2>1. CASE m_HasNextPicture
    BY <2>1 DEF PaintFinished
  <2>2. CASE ~m_HasNextPicture
    <3>1. ~m_IsPainting' /\ m_HasNextPicture' = m_HasNextPicture /\ out' = held
      BY <2>2 DEF PaintFinished
    <3>2. QED BY <2>2, <3>1 DEF Held
  <2>3. QED BY <2>1, <2>2
<1>2. Held' \subseteq {p \in {m_NextPicture} : m_HasNextPicture} /\ ~m_HasNextPicture'
  BY <1>1, PaintHolds
<1>3. SessionsInv'
  <2>1. Held' \subseteq Held
    BY <1>2 DEF Held
  <2>2. QED BY <1>0, <2>1 DEF PictureInv, SessionsInv, HeldOf
<1>4. HandedOutInv'
  <2> SUFFICES ASSUME ~stale', m_VideoDecoder # 0 PROVE HandedOutInv'
    BY <1>0 DEF HandedOutInv
  <2>1. ~stale /\ m_CurrentPicture.session = m_VideoDecoder
    BY DEF PaintFinished
  <2>2. /\ out = HeldOf(m_VideoDecoder)
        /\ \A p \in out, q \in out : p.texture = q.texture => p = q
        /\ m_HasNextPicture /\ m_NextPicture.session = m_VideoDecoder
             => m_NextPicture # m_CurrentPicture
    BY <1>0, <2>1 DEF PictureInv, HandedOutInv
  <2>3. held = {p \in {m_NextPicture} : m_HasNextPicture /\ p.session = m_VideoDecoder}
    <3>1. m_CurrentPicture \in out
      BY <1>0, <2>1, <2>2 DEF HeldOf, Held
    <3>2. held = out \ {m_CurrentPicture}
      BY <2>2, <3>1 DEF Recycled
    <3>3. QED BY <2>2, <3>2 DEF HeldOf, Held
  <2>4. /\ out' = {p \in Held' : p.session = m_VideoDecoder}
        /\ out' \subseteq {m_NextPicture}
    <3>1. CASE ~m_HasNextPicture
      BY <1>1, <2>3, <3>1
    <3>2. CASE m_HasNextPicture /\ m_NextPicture.target = 0
      <4>1. Held' = {} /\ out' = Recycled(held, m_NextPicture)
        BY <1>1, <3>2, PaintHolds
      <4>2. QED BY <2>3, <4>1 DEF Recycled
    <3>3. CASE m_HasNextPicture /\ m_NextPicture.target # 0
      <4>1. Held' = {m_NextPicture} /\ out' = held
        BY <1>1, <3>3, PaintHolds
      <4>2. QED BY <2>3, <3>3, <4>1
    <3>4. QED BY <3>1, <3>2, <3>3
  <2>5. \A p \in out', q \in out' : p = q
    BY <2>4
  <2>6. QED BY <1>0, <1>2, <2>4, <2>5 DEF HandedOutInv, HeldOf
<1>5. QED BY <1>0, <1>3, <1>4 DEF PictureInv

LEMMA PictureStep == PictureInv /\ [Next]_vars => PictureInv'
<1> SUFFICES ASSUME PictureInv, [Next]_vars PROVE PictureInv'
  OBVIOUS
<1>0. SlotInv'
  BY SlotStep DEF PictureInv
<1>f. ASSUME UNCHANGED pictureVars PROVE Held' = Held
  BY <1>f DEF Held, pictureVars
<1>1. CASE InitializeRenderingSurface
  BY <1>0, <1>1, <1>f DEF InitializeRenderingSurface, PictureInv, SessionsInv, HandedOutInv,
                          HeldOf, pictureVars
<1>2. ASSUME NEW i \in BOOLEAN, VidDecSetup(i) PROVE PictureInv'
  <2>1. Held' = Held /\ session' = session /\ m_VideoDecoder' = session /\ out' = {}
        /\ stale' = stale /\ phase' \in {"idle", "running"} /\ phase = "surface"
    BY <1>2, <1>f DEF VidDecSetup
  <2>2. {p \in Held' : p.session = session} = {}
    BY <2>1 DEF PictureInv, SessionsInv
  <2>3. SessionsInv'
    BY <2>1, <2>2 DEF PictureInv, SessionsInv, HeldOf
  <2>4. HandedOutInv'
    <3>1. m_HasNextPicture' => m_NextPicture' \in Held'
      BY <2>1 DEF Held
    <3>2. QED BY <2>1, <2>2, <3>1 DEF HandedOutInv, HeldOf
  <2>5. QED BY <1>0, <2>1, <2>3, <2>4 DEF PictureInv
<1>3. CASE DeleteDecoder
  <2>1. Held' = Held
    BY <1>3, <1>f DEF DeleteDecoder
  <2>2. SessionsInv'
    BY <1>3, <2>1 DEF DeleteDecoder, PictureInv, SessionsInv, HeldOf
  <2>3. QED BY <1>0, <1>3, <2>2 DEF DeleteDecoder, PictureInv, HandedOutInv
<1>4. CASE DeleteSurface
  BY <1>0, <1>4, <1>f DEF DeleteSurface, PictureInv, SessionsInv, HandedOutInv, HeldOf,
                          pictureVars
<1>5. ASSUME NEW s \in 1..SESSIONS, DispatchGetPicture(s) PROVE PictureInv'
  BY <1>0, <1>5, <1>f DEF DispatchGetPicture, PictureInv, SessionsInv, HandedOutInv, HeldOf,
                          pictureVars, sessionVars
<1>6. ASSUME NEW g \in Targets \cup {0}, NEW t \in Textures, PictureReady(g, t) PROVE PictureInv'
  BY <1>0, <1>6, ReadyKeepsPictures
<1>7. CASE PaintFinished
  BY <1>0, <1>7, PaintedKeepsPictures
<1>8. CASE UNCHANGED vars
  BY <1>0, <1>8, <1>f DEF vars, PictureInv, SessionsInv, HandedOutInv, HeldOf, pictureVars,
                          sessionVars
<1>9. QED BY <1>1, <1>2, <1>3, <1>4, <1>5, <1>6, <1>7, <1>8 DEF Next

(* Until a callback meets a decoder of another session, every picture a    *)
(* decoder has handed out is the painted one, the one in the slot, or has  *)
(* been recycled.                                                          *)
THEOREM PicturesComeBack == Spec => []HandedOutIsHeld
<1>1. PictureInv => HandedOutIsHeld
  BY DEF PictureInv, HandedOutInv, HandedOutIsHeld, HeldOf, Held
<1>2. QED BY PictureInit, PictureStep, <1>1, PTL DEF Spec

-----------------------------------------------------------------------------
(* What is on the screen. *)

ShowsInv ==
  /\ painted \in Nat
  /\ s_FirstFrameDisplayed = (painted # 0)
  /\ shows = IF painted = 0 THEN 0 ELSE 1

BoundInv ==
  /\ phase \in {"surface", "running"} => graphics = session
  /\ phase = "running" => \A g \in Targets : shader[g] \in {0, session}
  /\ phase \in {"idle", "surface"} => \A g \in Targets : shader[g] = 0
  /\ phase = "running" /\ s_LastTextureType # 0 =>
       /\ used = [context |-> session, target |-> s_LastTextureType]
       /\ boundTexture = s_LastTextureId
  /\ phase = "running" /\ m_IsPainting /\ m_CurrentPicture.session = session =>
       /\ m_CurrentPicture.target = s_LastTextureType
       /\ m_CurrentPicture.texture = s_LastTextureId

TargetsInv ==
  /\ DOMAIN shader = Targets
  /\ \A p \in Held : p.target \in Targets \cup {0}
  /\ m_IsPainting => m_CurrentPicture.target # 0

ScreenInv == PictureInv /\ ShowsInv /\ TargetsInv /\ (~stale => BoundInv)

(* A drawing leaves the program of the picture's target in use and its     *)
(* texture bound, whatever it skips.                                       *)
LEMMA DrawBinds ==
  ASSUME BoundInv, DOMAIN shader = Targets, phase = "running", session # 0,
         NEW next, next.target \in Targets, Draw(next)
  PROVE  /\ used' = [context |-> session, target |-> next.target]
         /\ boundTexture' = next.texture /\ s_LastTextureId' = next.texture
         /\ s_LastTextureType' = next.target
         /\ \A g \in Targets : shader'[g] \in {0, session}
<1>1. next.target # 0
  BY PresenterAssumption DEF PresenterAssumption
<1>2. CASE next.target = s_LastTextureType
  BY <1>1, <1>2 DEF BoundInv, Draw
<1>3. CASE next.target # s_LastTextureType
  BY <1>1, <1>3 DEF BoundInv, Draw
<1>4. QED BY <1>2, <1>3

LEMMA PaintTargets ==
  ASSUME TargetsInv, NEW next, next.target \in Targets \cup {0}, NEW held, NEW pending,
         PaintPicture(next, held, pending)
  PROVE  TargetsInv'
<1>1. m_CurrentPicture' = next
  BY DEF PaintPicture
<1>2. CASE next.target = 0
  <2>1. ~m_IsPainting' /\ UNCHANGED glVars
    BY <1>2 DEF PaintPicture
  <2>2. Held' = {}
    BY <1>2, PaintHolds
  <2>3. QED BY <2>1, <2>2 DEF TargetsInv, glVars
<1>3. CASE next.target # 0
  <2>1. Draw(next)
    BY <1>3 DEF PaintPicture
  <2>2. DOMAIN shader' = Targets
    BY <2>1 DEF Draw, TargetsInv
  <2>3. Held' = {next}
    BY <1>3, PaintHolds
  <2>4. QED BY <1>1, <1>3, <2>2, <2>3 DEF TargetsInv
<1>4. QED BY <1>2, <1>3

LEMMA PaintBinds ==
  ASSUME BoundInv, TargetsInv, phase = "running", session # 0,
         UNCHANGED <<session, phase, graphics>>,
         NEW next, next.target \in Targets \cup {0}, NEW held, NEW pending,
         PaintPicture(next, held, pending)
  PROVE  BoundInv'
<1>1. m_CurrentPicture' = next
  BY DEF PaintPicture
<1>2. CASE next.target = 0
  <2>1. ~m_IsPainting' /\ UNCHANGED glVars
    BY <1>2 DEF PaintPicture
  <2>2. QED BY <2>1 DEF BoundInv, glVars
<1>3. CASE next.target # 0
  <2>1. Draw(next)
    BY <1>3 DEF PaintPicture
  <2>2. next.target \in Targets /\ DOMAIN shader = Targets
    BY <1>3 DEF TargetsInv
  <2>3. /\ used' = [context |-> session, target |-> next.target]
        /\ boundTexture' = next.texture /\ s_LastTextureId' = next.texture
        /\ s_LastTextureType' = next.target
        /\ \A g \in Targets : shader'[g] \in {0, session}
    BY <2>1, <2>2, DrawBinds
  <2>4. QED BY <1>1, <2>3 DEF BoundInv
<1>4. QED BY <1>2, <1>3

LEMMA ScreenInit == Init => ScreenInv
<1> SUFFICES ASSUME Init PROVE ScreenInv
  OBVIOUS
<1>1. ShowsInv
  BY DEF Init, ShowsInv
<1>2. TargetsInv
  BY DEF Init, TargetsInv, Held
<1>3. BoundInv
  BY DEF Init, BoundInv
<1>4. QED BY PictureInit, <1>1, <1>2, <1>3 DEF ScreenInv

LEMMA ShowsStep == ShowsInv /\ [Next]_vars => ShowsInv'
<1> SUFFICES ASSUME ShowsInv, [Next]_vars PROVE ShowsInv'
  OBVIOUS
<1>f. ASSUME UNCHANGED firstVars PROVE ShowsInv'
  BY <1>f DEF ShowsInv, firstVars
<1>2. ASSUME NEW i \in BOOLEAN, VidDecSetup(i) PROVE ShowsInv'
  BY <1>2 DEF VidDecSetup, ShowsInv
<1>7. CASE PaintFinished
  <2>1. painted' = painted + 1 /\ painted' \in Nat /\ painted' # 0
    BY <1>7 DEF PaintFinished, ShowsInv
  <2>2. shows' = 1
    <3>1. CASE s_FirstFrameDisplayed
      BY <1>7, <3>1 DEF PaintFinished, ShowsInv
    <3>2. CASE ~s_FirstFrameDisplayed
      <4>1. painted = 0 /\ shows' = shows + 1
        BY <1>7, <3>2 DEF PaintFinished, ShowsInv
      <4>2. QED BY <4>1 DEF ShowsInv
    <3>3. QED BY <3>1, <3>2
  <2>3. s_FirstFrameDisplayed' = TRUE
    BY <1>7 DEF PaintFinished
  <2>4. QED BY <2>1, <2>2, <2>3 DEF ShowsInv
<1>8. CASE UNCHANGED vars
  BY <1>8, <1>f DEF vars
<1>9. QED BY <1>2, <1>7, <1>8, <1>f
          DEF Next, InitializeRenderingSurface, DeleteDecoder, DeleteSurface, DispatchGetPicture,
              PictureReady

LEMMA ScreenStep == ScreenInv /\ [Next]_vars => ScreenInv'
<1> SUFFICES ASSUME ScreenInv, [Next]_vars PROVE TargetsInv' /\ (~stale' => BoundInv')
  BY PictureStep, ShowsStep DEF ScreenInv
<1>f. ASSUME UNCHANGED pictureVars PROVE Held' = Held
  BY <1>f DEF Held, pictureVars
<1>1. CASE InitializeRenderingSurface
  <2>1. Held' = Held
    BY <1>1, <1>f DEF InitializeRenderingSurface
  <2>2. QED BY <1>1, <2>1 DEF InitializeRenderingSurface, ScreenInv, TargetsInv, BoundInv,
                              pictureVars
<1>2. ASSUME NEW i \in BOOLEAN, VidDecSetup(i) PROVE TargetsInv' /\ (~stale' => BoundInv')
  <2>1. Held' = Held /\ UNCHANGED <<m_IsPainting, m_CurrentPicture, shader, session, graphics>>
        /\ stale' = stale /\ s_LastTextureType' = 0 /\ phase = "surface"
        /\ phase' \in {"idle", "running"}
    BY <1>2, <1>f DEF VidDecSetup, pictureVars
  <2>2. m_IsPainting => m_CurrentPicture.session # session
    <3>1. m_IsPainting => m_CurrentPicture \in Held
      BY DEF Held
    <3>2. QED BY <2>1, <3>1 DEF ScreenInv, PictureInv, SessionsInv
  <2>3. QED BY <2>1, <2>2 DEF ScreenInv, TargetsInv, BoundInv
<1>3. CASE DeleteDecoder
  <2>1. Held' = Held
    BY <1>3, <1>f DEF DeleteDecoder
  <2>2. QED BY <1>3, <2>1 DEF DeleteDecoder, ScreenInv, TargetsInv, BoundInv, pictureVars, glVars
<1>4. CASE DeleteSurface
  <2>1. Held' = Held
    BY <1>4, <1>f DEF DeleteSurface
  <2>2. QED BY <1>4, <2>1 DEF DeleteSurface, ScreenInv, TargetsInv, BoundInv, pictureVars
<1>5. ASSUME NEW s \in 1..SESSIONS, DispatchGetPicture(s)
      PROVE  TargetsInv' /\ (~stale' => BoundInv')
  <2>1. Held' = Held
    BY <1>5, <1>f DEF DispatchGetPicture
  <2>2. QED BY <1>5, <2>1 DEF DispatchGetPicture, ScreenInv, TargetsInv, BoundInv, pictureVars,
                              glVars, sessionVars
<1>6. ASSUME NEW g \in Targets \cup {0}, NEW t \in Textures, PictureReady(g, t)
      PROVE  TargetsInv' /\ (~stale' => BoundInv')
  <2> DEFINE picture == [session |-> m_VideoDecoder, n |-> made + 1, target |-> g, texture |-> t]
  <2>0. phase = "running" /\ session # 0 /\ UNCHANGED <<session, phase, graphics>>
        /\ (~stale' => ~stale) /\ picture.target = g
    BY <1>6 DEF PictureReady, ScreenInv, PictureInv, SessionsInv, sessionVars
  <2>1. CASE m_IsPainting
    <3>1. /\ UNCHANGED <<m_CurrentPicture, glVars>> /\ m_IsPainting' = m_IsPainting
          /\ m_NextPicture' = picture
      BY <1>6, <2>1 DEF PictureReady
    <3>2. Held' \subseteq Held \cup {picture}
      BY <3>1 DEF Held
    <3>3. TargetsInv'
      BY <2>0, <3>1, <3>2 DEF ScreenInv, TargetsInv, glVars
    <3>4. ~stale' => BoundInv'
      BY <2>0, <3>1 DEF ScreenInv, BoundInv, glVars
    <3>5. QED BY <3>3, <3>4
  <2>2. CASE ~m_IsPainting
    <3>1. PICK held : PaintPicture(picture, held, swaps)
      BY <1>6, <2>2 DEF PictureReady
    <3>2. TargetsInv'
      BY <2>0, <3>1, PaintTargets DEF ScreenInv
    <3>3. ~stale' => BoundInv'
      BY <2>0, <3>1, PaintBinds DEF ScreenInv
    <3>4. QED BY <3>2, <3>3
  <2>3. QED BY <2>1, <2>2
<1>7. CASE PaintFinished
  <2>0. m_IsPainting /\ UNCHANGED <<session, phase, graphics, m_NextPicture>>
    BY <1>7 DEF ScreenInv, PictureInv, SlotInv, SlotWaitsForPaint, PaintFinished, sessionVars
  <2>1. ~stale' => ~stale /\ phase = "running" /\ session # 0
    <3>1. m_CurrentPicture \in Held
      BY <2>0 DEF Held
    <3>2. ~stale' => ~stale /\ m_CurrentPicture.session = m_VideoDecoder
      BY <1>7 DEF PaintFinished
    <3>3. QED BY <3>1, <3>2 DEF ScreenInv, PictureInv, SessionsInv, HeldOf
  <2>2. CASE m_HasNextPicture
    <3>1. PICK held : PaintPicture(m_NextPicture, held, swaps - 1)
      BY <1>7, <2>2 DEF PaintFinished
    <3>2. m_NextPicture.target \in Targets \cup {0}
      BY <2>2 DEF ScreenInv, TargetsInv, Held
    <3>3. TargetsInv'
      BY <3>1, <3>2, PaintTargets DEF ScreenInv
    <3>4. ~stale' => BoundInv'
      BY <2>0, <2>1, <3>1, <3>2, PaintBinds DEF ScreenInv
    <3>5. QED BY <3>3, <3>4
  <2>3. CASE ~m_HasNextPicture
    <3>1. ~m_IsPainting' /\ m_HasNextPicture' = m_HasNextPicture /\ UNCHANGED glVars
      BY <1>7, <2>3 DEF PaintFinished
    <3>2. Held' = {}
      BY <2>3, <3>1 DEF Held
    <3>3. QED BY <2>0, <2>1, <3>1, <3>2 DEF ScreenInv, TargetsInv, BoundInv, glVars
  <2>4. QED BY <2>2, <2>3
<1>8. CASE UNCHANGED vars
  BY <1>8, <1>f DEF vars, ScreenInv, TargetsInv, BoundInv, pictureVars, glVars, sessionVars
<1>9. QED BY <1>1, <1>2, <1>3, <1>4, <1>5, <1>6, <1>7, <1>8 DEF Next

(* Until then every picture is painted with the program of its own target  *)
(* and its own texture, and the front end is told once to show the video.  *)
THEOREM PicturesShowTheirOwn == Spec => []PaintedAsDecoded
<1>1. ScreenInv => PaintedAsDecoded
  <2> SUFFICES ASSUME ScreenInv, ~stale, m_VideoDecoder # 0 PROVE PaintedAsDecoded
    BY DEF PaintedAsDecoded
  <2>1. ASSUME m_IsPainting, m_CurrentPicture.session = m_VideoDecoder
        PROVE  /\ used = [context |-> m_VideoDecoder, target |-> m_CurrentPicture.target]
               /\ boundTexture = m_CurrentPicture.texture
    <3>1. m_CurrentPicture \in HeldOf(m_VideoDecoder)
      BY <2>1 DEF Held, HeldOf
    <3>2. phase = "running" /\ m_VideoDecoder = session
      BY <3>1 DEF ScreenInv, PictureInv, SessionsInv
    <3>3. QED BY <2>1, <3>2 DEF ScreenInv, TargetsInv, BoundInv
  <2>2. QED BY <2>1 DEF ScreenInv, ShowsInv, PaintedAsDecoded
<1>2. QED BY ScreenInit, ScreenStep, <1>1, PTL DEF Spec
=============================================================================
