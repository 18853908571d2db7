------------------------------ MODULE Repaint ------------------------------
(***************************************************************************)
(* The repaint chain of one CRTC of the DRM backend                        *)
(* (katnip/src/hardware_mode.rs): timers that call render_surface, frames  *)
(* handed to the DRM compositor, and the vblank events that follow, while  *)
(* the output comes and goes, the session is paused and resumed, and input *)
(* kicks the chain.  A frame is found empty when nothing it shows has      *)
(* changed.  The dot cursor has a new element id in each frame (798-799)   *)
(* and so always changes, but it is drawn at its place in the whole space  *)
(* (792-794): on an output it may be beyond what is shown there.           *)
(*                                                                         *)
(* Timers are counted, whatever their delay: 1 ms after a vblank, 250 ms   *)
(* after a frame that was not queued, none after a kick.                   *)
(***************************************************************************)
EXTENDS Integers

CONSTANTS
    MaxKicks,  \* bound: repaints requested by input
    MaxUpsets  \* bound: hotplugs, session switches and failures

ASSUME BoundsAssumption == MaxKicks \in Nat /\ MaxUpsets \in Nat

VARIABLES
    lit,      \* the CRTC has an output
    active,   \* the session owns the VT
    healthy,  \* rendering succeeds
    dot,      \* the dot cursor is drawn inside the output
    damage,   \* what else is shown has changed since the last frame
    timers,   \* timers that will call render_surface for this CRTC
    pending,  \* the compositor waits for the flip of a frame
    queued,   \* another frame is queued behind it
    flips,    \* vblank events the kernel has still to deliver
    kicks,    \* kicks so far
    upsets    \* moves of the environment so far

chain == <<lit, active, healthy, dot, damage, timers, pending, queued, flips, kicks, upsets>>

frames == <<timers, pending, queued, flips>>

(* render_surface, called with t timers left *)

\* Nothing could be queued: try again later.
Retry(t) ==
    /\ timers' = t + 1
    /\ UNCHANGED <<pending, queued, flips>>

\* Mutation: no retry.
RetryNever(t) ==
    /\ timers' = t
    /\ UNCHANGED <<pending, queued, flips>>

\* queue_frame: flip now, or wait behind the frame on its way, in place of one
\* that waits there already.  The kernel refuses a second flip.
QueueFrame(t) ==
    IF pending
    THEN timers' = t /\ queued' = TRUE /\ UNCHANGED <<pending, flips>>
    ELSE IF flips = 0
    THEN timers' = t /\ pending' = TRUE /\ flips' = 1 /\ UNCHANGED queued
    ELSE Retry(t)

\* Mutation: the retry is armed for frames that are queued, too.
RenderedAndRetried(t, d) ==
    /\ IF active' /\ healthy /\ (d \/ dot') THEN QueueFrame(t + 1) ELSE Retry(t)
    /\ damage' = FALSE

\* With d for the damage so far: an empty frame is not queued, nor is one that
\* could not be rendered.  A refused frame may have taken its damage along.
RenderSurface(t, d) ==
    /\ IF active' /\ healthy /\ (d \/ dot') THEN QueueFrame(t) ELSE Retry(t)
    /\ damage' \in IF timers' = t THEN {FALSE} ELSE {d, FALSE}

-----------------------------------------------------------------------------
RepaintInit ==
    /\ lit = FALSE
    /\ active = TRUE
    /\ healthy = TRUE
    /\ dot = TRUE
    /\ damage = FALSE
    /\ timers = 0
    /\ pending = FALSE
    /\ queued = FALSE
    /\ flips = 0
    /\ kicks = 0
    /\ upsets = 0

\* A timer fires.  Without an output the chain ends here.
TimerFires ==
    /\ timers > 0
    /\ UNCHANGED <<lit, active, healthy, dot, kicks, upsets>>
    /\ IF lit THEN RenderSurface(timers - 1, damage)
              ELSE timers' = timers - 1 /\ UNCHANGED <<damage, pending, queued, flips>>

\* Mutation: the vblank of a frame with another one behind it continues nothing.
VblankUnlessQueued ==
    /\ flips > 0
    /\ flips' = flips - 1
    /\ IF lit
       THEN pending' = FALSE /\ queued' = FALSE
                /\ timers' = IF queued THEN timers ELSE timers + 1
       ELSE UNCHANGED <<timers, pending, queued>>
    /\ UNCHANGED <<lit, active, healthy, dot, damage, kicks, upsets>>

\* frame_finished: the queued frame, if any, is flipped, and a repaint is
\* scheduled.  A vblank left over from an earlier output counts as well.
Vblank ==
    /\ flips > 0
    /\ IF lit
       THEN LET next == pending /\ queued /\ flips = 1
            IN  /\ pending' = next
                /\ queued' = FALSE
                /\ flips' = IF next THEN 1 ELSE flips - 1
                /\ timers' = timers + 1
       ELSE flips' = flips - 1 /\ UNCHANGED <<timers, pending, queued>>
    /\ UNCHANGED <<lit, active, healthy, dot, damage, kicks, upsets>>

\* request_repaint_all, on pointer input; there is none while paused.  Where the
\* pointer was, there is something to draw.
Kick ==
    /\ kicks < MaxKicks
    /\ lit
    /\ active
    /\ kicks' = kicks + 1
    /\ timers' = timers + 1
    /\ dot' \in BOOLEAN
    /\ damage' = (damage \/ dot)
    /\ UNCHANGED <<lit, active, healthy, pending, queued, flips, upsets>>

\* A client commits, or the clock of the bar goes on; that kicks nothing.
ContentChanges ==
    /\ lit
    /\ ~damage
    /\ damage' = TRUE
    /\ UNCHANGED <<lit, active, healthy, dot, frames, kicks, upsets>>

Upset ==
    /\ upsets < MaxUpsets
    /\ upsets' = upsets + 1

\* create_output ends with a first render_surface.
OutputCreated ==
    /\ Upset
    /\ ~lit
    /\ lit' = TRUE
    /\ dot' \in BOOLEAN
    /\ UNCHANGED <<active, healthy, kicks>>
    /\ RenderSurface(timers, TRUE)

\* destroy_output drops the compositor and its frames, but neither the timers
\* nor a vblank the kernel may still deliver.
OutputDestroyed ==
    /\ Upset
    /\ lit
    /\ lit' = FALSE
    /\ pending' = FALSE
    /\ queued' = FALSE
    /\ damage' = FALSE
    /\ UNCHANGED <<active, healthy, dot, timers, flips, kicks>>

\* pause_hardware: the compositor is cleared; a flip on its way may be lost.
PauseSession ==
    /\ Upset
    /\ active
    /\ active' = FALSE
    /\ pending' = FALSE
    /\ queued' = FALSE
    /\ flips' \in {0, flips}
    /\ UNCHANGED <<lit, healthy, dot, damage, timers, kicks>>

\* Mutation: nothing is rendered on return.
ResumeSilently ==
    /\ Upset
    /\ ~active
    /\ active' = TRUE
    /\ UNCHANGED <<lit, healthy, dot, damage, frames, kicks>>

\* resume_hardware: the state is reset and every surface is rendered.
ResumeSession ==
    /\ Upset
    /\ ~active
    /\ active' = TRUE
    /\ UNCHANGED <<lit, healthy, dot, kicks>>
    /\ IF lit THEN RenderSurface(timers, TRUE) ELSE UNCHANGED <<damage, frames>>

\* Rendering or queueing begins or ceases to fail.
Trouble ==
    /\ Upset
    /\ healthy' = ~healthy
    /\ UNCHANGED <<lit, active, dot, damage, frames, kicks>>

RepaintNext ==
    \/ TimerFires
    \/ Vblank
    \/ Kick
    \/ ContentChanges
    \/ OutputCreated
    \/ OutputDestroyed
    \/ PauseSession
    \/ ResumeSession
    \/ Trouble

RepaintSpec == RepaintInit /\ [][RepaintNext]_chain

\* Timers expire and the kernel delivers the vblanks of its flips.
FairRepaint == RepaintSpec /\ WF_chain(TimerFires) /\ WF_chain(Vblank)
-----------------------------------------------------------------------------
(* Properties *)

RepaintTypes ==
    /\ lit \in BOOLEAN /\ active \in BOOLEAN /\ healthy \in BOOLEAN
    /\ dot \in BOOLEAN /\ damage \in BOOLEAN
    /\ pending \in BOOLEAN /\ queued \in BOOLEAN
    /\ timers \in Nat /\ flips \in {0, 1}
    /\ kicks \in 0..MaxKicks /\ upsets \in 0..MaxUpsets

\* The repaint of an output never stalls: in a session that owns the VT there
\* is always a timer or a vblank to come that leads to the next frame,
\* whatever was lost while the session was away or failed to be queued.
ChainAlive == lit /\ active => timers > 0 \/ flips > 0

Working == lit /\ active /\ healthy

\* "continuous repaint per output at its refresh rate" (hardware_mode.rs:5): as long
\* as all works, frames keep being flipped.
RepaintsForever == <>[]Working => []<><<Vblank>>_chain

\* "Explicit kicks (input, arrange) re-render on demand, and the slow retry keeps the
\* bar clock alive" (hardware_mode.rs:850-851): as long as all works and there is
\* ever again something to draw, frames keep being flipped.
DamageIsFlipped ==
    <>[]Working /\ []<>(damage \/ dot) => []<><<Vblank>>_chain

\* Continuations of the chain: each will lead to another render.
Chains == timers + flips + (IF queued THEN 1 ELSE 0)

\* Only a kick, a new output or a resume starts another chain; a render and a
\* vblank have at most one continuation each, so a chain never multiplies
\* into repaints faster than the display ("instead of spinning at refresh
\* rate", hardware_mode.rs:849), even where frames overtake each other.
ChainsNeverFork ==
    [][TimerFires \/ Vblank => Chains' <= Chains]_chain
=============================================================================
