---------------------------- MODULE VideoPresenter ----------------------------
(***************************************************************************)
(* viddec.cpp: on the main thread, decoded pictures are taken from the     *)
(* browser's decoder, wait in one slot, are painted and recycled.  Each    *)
(* session sets up a decoder of its own; the thread that stops it deletes  *)
(* the decoder and the rendering surface, with callbacks still on their    *)
(* way to the main thread.  A handler is one step: the stopping thread     *)
(* deletes between handlers.                                               *)
(***************************************************************************)
EXTENDS Naturals, FiniteSets

CONSTANTS SESSIONS,     \* bound of the number of sessions
          PICTURES,     \* bound of the pictures of one session
          Textures,     \* of a decoder: texture_id
          Targets       \* texture_target, of pictures that are not bogus

ASSUME PresenterAssumption ==
  /\ SESSIONS \in Nat /\ PICTURES \in Nat /\ 0 \notin Textures
  /\ 0 \notin Targets

VARIABLES
  session, phase,       \* the last session, and where it is
  graphics,             \* the session of m_Graphics3D, or 0
  m_VideoDecoder,       \* the session of the decoder, 0 when deleted
  dispatching,          \* sessions whose DispatchGetPicture is posted
  asked,                \* GetPicture is pending at the decoder
  made,                 \* number of the decoder's pictures
  out,                  \* pictures it has handed out and not got back
  m_NextPicture, m_HasNextPicture, m_CurrentPicture, m_IsPainting,
  swaps,                \* calls of SwapBuffers whose callback has not run
  shader,               \* the context each target's program was made in, or 0
  used, boundTexture,   \* the program in use, the texture bound
  s_LastTextureType, s_LastTextureId,
  s_FirstFrameDisplayed,
  shows, painted,       \* displayVideo messages, pictures painted since the setup
  stale                 \* a callback has used a decoder that is not its own

pictureVars == <<m_NextPicture, m_HasNextPicture, m_CurrentPicture, m_IsPainting>>
glVars == <<shader, used, boundTexture, s_LastTextureType, s_LastTextureId>>
firstVars == <<s_FirstFrameDisplayed, shows, painted>>
sessionVars == <<session, phase, graphics, m_VideoDecoder>>
vars == <<sessionVars, dispatching, asked, made, out, pictureVars, swaps, glVars, firstVars,
          stale>>

Pictures == [session : 1..SESSIONS, n : 1..PICTURES, target : Targets \cup {0},
             texture : Textures]
NoPicture == [session |-> 0, n |-> 0, target |-> 0, texture |-> 0]
NoProgram == [context |-> 0, target |-> 0]

Init ==
  /\ session = 0 /\ phase = "idle" /\ graphics = 0 /\ m_VideoDecoder = 0
  /\ dispatching = {} /\ asked = FALSE /\ made = 0 /\ out = {}
  /\ m_NextPicture = NoPicture /\ m_CurrentPicture = NoPicture
  /\ m_HasNextPicture = FALSE /\ m_IsPainting = FALSE /\ swaps = 0
  /\ shader = [g \in Targets |-> 0] /\ used = NoProgram /\ boundTexture = 0
  /\ s_LastTextureType = 0 /\ s_LastTextureId = 0
  /\ s_FirstFrameDisplayed = FALSE /\ shows = 0 /\ painted = 0 /\ stale = FALSE

-----------------------------------------------------------------------------
(* The threads that start and stop a session. *)

\* HandleStartStream creates the surface before the connection thread.
InitializeRenderingSurface ==
  /\ phase = "idle" /\ session < SESSIONS
  /\ session' = session + 1 /\ graphics' = session' /\ phase' = "surface"
  /\ used' = NoProgram /\ boundTexture' = 0
  /\ UNCHANGED <<m_VideoDecoder, dispatching, asked, made, out, pictureVars, swaps, shader,
                 s_LastTextureType, s_LastTextureId, firstVars, stale>>

\* Mutant of VidDecSetup: what was last bound is not forgotten.
VidDecSetupKeepsTexture(initializes) ==
  /\ phase = "surface"
  /\ m_VideoDecoder' = session /\ asked' = FALSE /\ made' = 0 /\ out' = {}
  /\ s_FirstFrameDisplayed' = FALSE /\ shows' = 0 /\ painted' = 0
  /\ IF initializes
       THEN phase' = "running" /\ dispatching' = dispatching \cup {session}
       ELSE phase' = "idle" /\ UNCHANGED dispatching
  /\ UNCHANGED <<session, graphics, pictureVars, swaps, glVars, stale>>

\* Without a decoder that initializes, the stage fails and nothing is cleaned up.
VidDecSetup(initializes) ==
  /\ phase = "surface"
  /\ m_VideoDecoder' = session /\ asked' = FALSE /\ made' = 0 /\ out' = {}
  /\ s_LastTextureType' = 0 /\ s_LastTextureId' = 0
  /\ s_FirstFrameDisplayed' = FALSE /\ shows' = 0 /\ painted' = 0
  /\ IF initializes
       THEN phase' = "running" /\ dispatching' = dispatching \cup {session}
       ELSE phase' = "idle" /\ UNCHANGED dispatching
  /\ UNCHANGED <<session, graphics, pictureVars, swaps, shader, used, boundTexture, stale>>

\* VidDecCleanup: a pending GetPicture completes with PP_ERROR_ABORTED, which
\* PictureReady ignores.
DeleteDecoder ==
  /\ phase = "running"
  /\ phase' = "deleted" /\ m_VideoDecoder' = 0 /\ asked' = FALSE /\ out' = {}
  /\ UNCHANGED <<session, graphics, dispatching, made, pictureVars, swaps, glVars, firstVars, stale>>

\* A pending SwapBuffers is aborted: PaintFinished runs all the same.
DeleteSurface ==
  /\ phase = "deleted"
  /\ phase' = "idle" /\ graphics' = 0 /\ shader' = [g \in Targets |-> 0]
  /\ used' = NoProgram /\ boundTexture' = 0
  /\ UNCHANGED <<session, m_VideoDecoder, dispatching, asked, made, out, pictureVars, swaps,
                 s_LastTextureType, s_LastTextureId, firstVars, stale>>

-----------------------------------------------------------------------------
(* The main thread. *)

\* The decoder knows a picture by its texture.
Recycled(held, picture) == {p \in held : p.texture # picture.texture}

\* A new program is created with glUseProgram(0) behind it, and then used.
Draw(picture) ==
  /\ IF picture.target # s_LastTextureType
       THEN LET made_in == IF shader[picture.target] = 0 THEN graphics ELSE shader[picture.target]
            IN  /\ shader' = [shader EXCEPT ![picture.target] = made_in]
                /\ used' = [context |-> made_in, target |-> picture.target]
       ELSE UNCHANGED <<shader, used>>
  /\ s_LastTextureType' = picture.target
  /\ IF picture.texture # s_LastTextureId \/ picture.target # s_LastTextureType
       THEN boundTexture' = picture.texture /\ s_LastTextureId' = picture.texture
       ELSE UNCHANGED <<boundTexture, s_LastTextureId>>

\* PaintPicture with "next" in the slot; "held" and "pending" stand for out and
\* swaps as its callers leave them.
PaintPicture(next, held, pending) ==
  /\ m_CurrentPicture' = next /\ m_HasNextPicture' = FALSE
  /\ IF next.target = 0
       THEN /\ m_IsPainting' = FALSE /\ out' = Recycled(held, next) /\ swaps' = pending
            /\ UNCHANGED glVars
       ELSE /\ m_IsPainting' = TRUE /\ out' = held /\ swaps' = pending + 1
            /\ Draw(next)

\* On a deleted decoder the call may do anything; here the program goes on, and
\* on another session's it asks that one.
DispatchGetPicture(s) ==
  /\ s \in dispatching
  /\ dispatching' = dispatching \ {s}
  /\ asked' = (m_VideoDecoder # 0)
  /\ stale' = (stale \/ m_VideoDecoder # s)
  /\ UNCHANGED <<sessionVars, made, out, pictureVars, swaps, glVars, firstVars>>

\* Mutant of PictureReady: the picture it replaces is not recycled.
PictureReadyKeepsReplaced(target, texture) ==
  LET picture == [session |-> m_VideoDecoder, n |-> made + 1, target |-> target, texture |-> texture]
      held == out \cup {picture}
  IN
  /\ phase = "running" /\ asked /\ made < PICTURES
  /\ \A p \in out : p.texture # texture
  /\ made' = made + 1
  /\ m_NextPicture' = picture
  /\ stale' = (stale \/ (m_HasNextPicture /\ m_NextPicture.session # m_VideoDecoder))
  /\ IF m_IsPainting
       THEN /\ m_HasNextPicture' = TRUE /\ out' = held
            /\ UNCHANGED <<m_CurrentPicture, m_IsPainting, swaps, glVars>>
       ELSE PaintPicture(picture, held, swaps)
  /\ UNCHANGED <<sessionVars, dispatching, asked, firstVars>>

\* The decoder has a picture, in a texture it has not handed out.
PictureReady(target, texture) ==
  LET picture == [session |-> m_VideoDecoder, n |-> made + 1, target |-> target, texture |-> texture]
      kept == IF m_HasNextPicture THEN Recycled(out, m_NextPicture) ELSE out
      held == kept \cup {picture}
  IN
  /\ phase = "running" /\ asked /\ made < PICTURES
  /\ \A p \in out : p.texture # texture
  /\ made' = made + 1
  /\ m_NextPicture' = picture
  /\ stale' = (stale \/ (m_HasNextPicture /\ m_NextPicture.session # m_VideoDecoder))
  /\ IF m_IsPainting
       THEN /\ m_HasNextPicture' = TRUE /\ out' = held
            /\ UNCHANGED <<m_CurrentPicture, m_IsPainting, swaps, glVars>>
       ELSE PaintPicture(picture, held, swaps)
  /\ UNCHANGED <<sessionVars, dispatching, asked, firstVars>>

\* Mutant of PaintFinished: the picture in the slot waits for the next one.
PaintFinishedLeavesNext ==
  /\ swaps > 0
  /\ s_FirstFrameDisplayed' = TRUE /\ painted' = painted + 1
  /\ shows' = IF s_FirstFrameDisplayed THEN shows ELSE shows + 1
  /\ stale' = (stale \/ m_CurrentPicture.session # m_VideoDecoder)
  /\ m_IsPainting' = FALSE /\ out' = Recycled(out, m_CurrentPicture) /\ swaps' = swaps - 1
  /\ UNCHANGED <<m_CurrentPicture, m_HasNextPicture, glVars>>
  /\ UNCHANGED <<sessionVars, dispatching, asked, made, m_NextPicture>>

PaintFinished ==
  /\ swaps > 0
  /\ s_FirstFrameDisplayed' = TRUE /\ painted' = painted + 1
  /\ shows' = IF s_FirstFrameDisplayed THEN shows ELSE shows + 1
  /\ stale' = (stale \/ m_CurrentPicture.session # m_VideoDecoder)
  /\ LET held == Recycled(out, m_CurrentPicture) IN
       IF m_HasNextPicture
         THEN PaintPicture(m_NextPicture, held, swaps - 1)
         ELSE /\ m_IsPainting' = FALSE /\ out' = held /\ swaps' = swaps - 1
              /\ UNCHANGED <<m_CurrentPicture, m_HasNextPicture, glVars>>
  /\ UNCHANGED <<sessionVars, dispatching, asked, made, m_NextPicture>>

Next ==
  \/ InitializeRenderingSurface
  \/ \E initializes \in BOOLEAN : VidDecSetup(initializes)
  \/ DeleteDecoder
  \/ DeleteSurface
  \/ \E s \in 1..SESSIONS : DispatchGetPicture(s)
  \/ \E target \in Targets \cup {0}, texture \in Textures : PictureReady(target, texture)
  \/ PaintFinished

Spec == Init /\ [][Next]_vars

-----------------------------------------------------------------------------
(* A picture waits in the slot only while another is being painted, and    *)
(* while one is, exactly one callback is on its way that will take the     *)
(* next: no picture is left behind when a paint ends, or its session does, *)
(* and no paint begins during another (viddec.cpp:434, :472, and the two   *)
(* flags that no setup resets).                                            *)
SlotWaitsForPaint ==
  /\ m_HasNextPicture => m_IsPainting
  /\ swaps = IF m_IsPainting THEN 1 ELSE 0

(* Until a callback meets a decoder that is not its own: the pictures a    *)
(* decoder has handed out are the one being painted and the one in the     *)
(* slot, which is its newest.  So each of the others has been recycled,    *)
(* and none of these two (viddec.cpp:430, :459).                           *)
HandedOutIsHeld ==
  ~stale /\ m_VideoDecoder # 0 =>
    /\ out = {p \in (IF m_HasNextPicture THEN {m_NextPicture} ELSE {})
                    \cup (IF m_IsPainting THEN {m_CurrentPicture} ELSE {})
                : p.session = m_VideoDecoder}
    /\ m_HasNextPicture /\ m_NextPicture.session = m_VideoDecoder => m_NextPicture.n = made

(* Under the same condition a picture is painted with the program of its   *)
(* own target, made in the context of its session, and with its own        *)
(* texture bound, whichever of the state changes were skipped as already   *)
(* made (viddec.cpp:372, :402); and the front end is told to show the      *)
(* video once, when the first picture has been painted.                    *)
PaintedAsDecoded ==
  ~stale /\ m_VideoDecoder # 0 =>
    /\ m_IsPainting /\ m_CurrentPicture.session = m_VideoDecoder =>
         /\ used = [context |-> m_VideoDecoder, target |-> m_CurrentPicture.target]
         /\ boundTexture = m_CurrentPicture.texture
    /\ shows = IF painted = 0 THEN 0 ELSE 1
=============================================================================
