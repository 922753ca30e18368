------------------------------ MODULE Display ------------------------------
(***************************************************************************)
(* The display capability: capabilities/display.c over                     *)
(* platforms/k210/capabilities/display_adapter.c, with the panel behind    *)
(* drivers/lcd_st7789.c and the workspace of services/frame_pool.c.        *)
(*                                                                         *)
(* The BASE plane (native views) draws batches of commands or writes the   *)
(* shadow frame in place; the OVERLAY plane (the script bridge) draws      *)
(* batches over it.  All calls run on core 0, so a call is an action; what *)
(* varies is where a transfer to the panel fails, by deadline,             *)
(* cancellation or bus error.                                              *)
(*                                                                         *)
(* A rectangle is the set of its pixels, a list of commands the map of the *)
(* pixels it paints, and a list of dirty rectangles a set.                 *)
(***************************************************************************)
EXTENDS Integers, FiniteSets, FiniteSetsExt, SequencesExt

CONSTANTS Width, Height,   \* LCD_W, LCD_H
          MaxDirty,        \* K210_DISPLAY_MAX_DIRTY_RECTS
          MaxCommands,     \* K210_DISPLAY_MAX_COMMANDS
          Colors,
          Draws,           \* commands clients issue: [plane, rect, on, color, blit];
                           \* on: the pixels of rect it paints
          Writes,          \* what a view writes in place: [rect, color]
          Regions,         \* rectangles a view marks
          FailureMax       \* transfers that fail

VARIABLES
    panel,       \* what the glass shows
    shadow,      \* lcd_st7789_transport_shadow: the backing frame of BASE
    planes,      \* display_plane_t, and the plane's bit of quarantined
    stage,       \* display_stage_t: the one batch being drawn
    surface,     \* display_surface_stage_t: the borrow of the shadow
    overlay,     \* display_overlay_t: the committed overlay
    pool,        \* who holds the frame pool: the display's workspace, a camera
                 \* stream or decoder, or nobody
    \* history: pixels written in place and not transferred since, and pixels a
    \* transfer reached that no repair list accounts for
    loose, lost,
    faults       \* failed transfers, at most FailureMax

displayVars ==
    <<panel, shadow, planes, stage, surface, overlay, pool, loose, lost, faults>>

Planes == {"base", "overlay"}
Nobody == "nobody"
None   == -1      \* a pixel no command paints

Pixels == (1..Width) \X (1..Height)
Box(x0, x1, y0, y1) == (x0..x1) \X (y0..y1)
Rects  == {Box(x0, x1, y0, y1) : x0, x1 \in 1..Width, y0, y1 \in 1..Height} \ {{}}

(* Every command and write is clipped to its rectangle and the screen; one   *)
(* that leaves nothing returns before it changes anything.                   *)
ASSUME DisplayAssumption ==
    /\ {Width, Height, MaxDirty, MaxCommands} \subseteq Nat \ {0}
    /\ Colors \subseteq Nat /\ 0 \in Colors
    /\ \A d \in Draws : /\ d.plane \in Planes /\ d.blit \in {0, 1} /\ d.color \in Colors
                        /\ d.rect \in Rects /\ d.on \subseteq d.rect
    /\ \A w \in Writes : w.rect \in Rects /\ w.color \in Colors
    /\ Regions \subseteq Rects
    /\ FailureMax \in Nat

Picture == [Pixels -> Colors]
Paint   == [Pixels -> Colors \cup {None}]
Lists   == SUBSET Rects

(* The type of every variable. *)
DisplayTypeOK ==
    /\ panel \in Picture /\ shadow \in Picture
    /\ planes \in [Planes -> [open : {0, 1}, repair : Lists, quarantined : {0, 1}]]
    /\ stage \in [owner : Planes \cup {Nobody}, paint : Paint, dirty : Lists,
                  count : 0..MaxCommands, borrow : {0, 1}]
    /\ surface \in [active : {0, 1}, dirty : Lists]
    /\ overlay \in [paint : Paint, dirty : Lists, count : 0..MaxCommands]
    /\ pool \in {"free", "display", "other"}
    /\ loose \subseteq Pixels /\ lost \subseteq Pixels
    /\ faults \in 0..FailureMax

---------------------------------------------------------------------------
(* dirty_add: a rectangle that overlaps entries of the list is replaced by   *)
(* their common box, over again until it meets none: the least box that      *)
(* holds the rectangle and every entry it meets.                             *)
Absorbing(list, rect) ==
    {b \in Rects : rect \subseteq b /\ \A d \in list : d \cap b = {} \/ d \subseteq b}

Merged(list, rect) ==
    CHOOSE b \in Absorbing(list, rect) : \A c \in Absorbing(list, rect) : b \subseteq c

DirtyAdd(found, rect) ==
    LET box  == Merged(found.list, rect)
        rest == {d \in found.list : d \cap box = {}}
    IN  IF Cardinality(rest) < MaxDirty
        THEN [found EXCEPT !.list = rest \cup {box}]
        ELSE [list |-> rest, full |-> 1]

Listed(list) == [list |-> list, full |-> 0]

(* dirty_add over the entries s[1], s[2], ... of a list of n, one by one.    *)
DirtyAdds(list, s, n) ==
    LET found[i \in 0..n] ==
            IF i = 0 THEN Listed(list) ELSE DirtyAdd(found[i - 1], s[i])
    IN  found[n]

(* The lists a run of dirty_add over the entries of more can end with: the   *)
(* order of the entries, which sets do not keep, decides when one is full.   *)
DirtyAddAll(list, more) ==
    {DirtyAdds(list, s, Cardinality(more)) : s \in SetToSeqs(more)}

Covered(list) == UNION list

(* render_commands_span, render_span: commands drawn over what lies below.   *)
Over(paint, below) ==
    [q \in Pixels |-> IF paint[q] = None THEN below[q] ELSE paint[q]]

Unpainted == [q \in Pixels |-> None]
NoOverlay == [paint |-> Unpainted, dirty |-> {}, count |-> 0]
NoStage   == [owner |-> Nobody, paint |-> Unpainted, dirty |-> {}, count |-> 0, borrow |-> 0]
NoSurface == [active |-> 0, dirty |-> {}]

(* The committed picture: the overlay over the shadow.                       *)
Committed == Over(overlay.paint, shadow)

(* transfer_rect, transfer_regions: the pixels of S have reached the panel.  *)
Shows(picture, S) == [q \in Pixels |-> IF q \in S THEN picture[q] ELSE panel[q]]

Before(a, b) == a[2] < b[2] \/ (a[2] = b[2] /\ a[1] < b[1])

(* What of a transfer of regions that fails has arrived: some whole          *)
(* rectangles, of one the first rows and pixels.                             *)
Arrived(regions) ==
    {S \in SUBSET Covered(regions) :
        \/ S = {}
        \/ \E last \in regions :
             /\ \A r \in regions \ {last} : r \cap S \in {{}, r}
             /\ \A a \in S \cap last, b \in last : Before(b, a) => b \in S}

(* And whether one slice, a pixel here, was reported written.  A slice whose *)
(* write fails or is cancelled on its way out may have arrived; a panel fed  *)
(* by DMA at the end of a rectangle may have got nothing of what was         *)
(* reported written.                                                         *)
Failures(regions) ==
    {f \in Arrived(regions) \X {0, 1} : f[2] = 0 => Cardinality(f[1]) <= 1}

Fault == faults < FailureMax /\ faults' = faults + 1

(* Mutant: a repair list of the overlay does not hold the workspace.         *)
PoolAfterAbort(st, ov, repair) ==
    IF pool = "display" /\ st.owner = Nobody /\ ov.count = 0 THEN "free" ELSE pool

(* workspace_release_if_idle, with the stage, the overlay and the repair     *)
(* list of the overlay plane as the call leaves them.                        *)
PoolAfter(st, ov, repair) ==
    IF pool = "display" /\ st.owner = Nobody /\ ov.count = 0 /\ repair = {}
    THEN "free" ELSE pool

DisplayInit ==
    /\ panel = [q \in Pixels |-> 0] /\ shadow = [q \in Pixels |-> 0]
    /\ planes = [p \in Planes |-> [open |-> 0, repair |-> {}, quarantined |-> 0]]
    /\ stage = NoStage /\ surface = NoSurface /\ overlay = NoOverlay
    /\ pool = "free" /\ loose = {} /\ lost = {} /\ faults = 0

(* display_provider_for                                                      *)
Usable(p) == planes[p].open = 1 /\ planes[p].quarantined = 0

---------------------------------------------------------------------------
(* hk_display_open, k210_display_open                                        *)
Open(p) ==
    /\ planes[p].open = 0 /\ planes[p].quarantined = 0
    /\ planes' = [planes EXCEPT ![p].open = 1, ![p].repair = {}]
    /\ UNCHANGED <<panel, shadow, stage, surface, overlay, pool, loose, lost, faults>>

(* k210_display_begin: one batch at a time, of either plane.                 *)
BeginBatch(p) ==
    /\ Usable(p) /\ (p = "base" => surface.active = 0)
    /\ stage.owner = Nobody /\ pool # "other"
    /\ stage' = [NoStage EXCEPT !.owner = p]
    /\ pool' = "display"
    /\ UNCHANGED <<panel, shadow, planes, surface, overlay, loose, lost, faults>>

(* append_command: limits are checked before anything changes.               *)
Draw(d) ==
    LET added == DirtyAdd(Listed(stage.dirty), d.rect)
    IN  /\ Usable(d.plane) /\ stage.owner = d.plane
        /\ stage.count < MaxCommands
        /\ d.blit = 1 => d.plane = "base" /\ stage.borrow = 0
        /\ added.full = 0
        /\ stage' = [stage EXCEPT
                !.paint = [q \in Pixels |-> IF q \in d.on THEN d.color ELSE stage.paint[q]],
                !.dirty = added.list, !.count = @ + 1, !.borrow = IF d.blit = 1 THEN 1 ELSE @]
        /\ UNCHANGED <<panel, shadow, planes, surface, overlay, pool, loose, lost, faults>>

(* k210_display_mark: of the batch if there is one, else of the surface;     *)
(* views mark, scripts have no call for it.                                  *)
Mark(rect) ==
    LET inStage == stage.owner = "base"
        added   == DirtyAdd(Listed(IF inStage THEN stage.dirty ELSE surface.dirty), rect)
    IN  /\ Usable("base") /\ (inStage \/ surface.active = 1)
        /\ added.full = 0
        /\ stage' = IF inStage THEN [stage EXCEPT !.dirty = added.list] ELSE stage
        /\ surface' = IF inStage THEN surface ELSE [surface EXCEPT !.dirty = added.list]
        /\ UNCHANGED <<panel, shadow, planes, overlay, pool, loose, lost, faults>>

(* k210_display_surface                                                      *)
AcquireSurface ==
    /\ Usable("base") /\ surface.active = 0 /\ stage.owner # "base"
    /\ surface' = [active |-> 1, dirty |-> {}]
    /\ UNCHANGED <<panel, shadow, planes, stage, overlay, pool, loose, lost, faults>>

(* The borrower writes the shadow.                                           *)
WriteSurface(w) ==
    /\ surface.active = 1
    /\ shadow' = [q \in Pixels |-> IF q \in w.rect THEN w.color ELSE shadow[q]]
    /\ loose' = loose \cup w.rect
    /\ UNCHANGED <<panel, planes, stage, surface, overlay, pool, lost, faults>>

---------------------------------------------------------------------------
(* k210_display_present *)

Staged(p) == stage.owner = p \/ (p = "base" /\ surface.active = 1)

(* repair_regions sends the committed picture: an overlay without commands   *)
(* paints nothing.                                                           *)
RepairPicture == Committed

(* What the plane's stage is about to show.                                  *)
Prospect(p) ==
    CASE p = "overlay"        -> Over(stage.paint, shadow)
      [] stage.owner = "base" -> Over(overlay.paint, Over(stage.paint, shadow))
      [] OTHER                -> Committed

(* Mutant: the old overlay is not among them.                                *)
AffectedNew(p) == {Listed(IF stage.owner = p THEN stage.dirty ELSE surface.dirty)}

(* The rectangles to send: those of the stage and, for the overlay, those of *)
(* the overlay it replaces.                                                  *)
AffectedLists(p) ==
    DirtyAddAll(IF stage.owner = p THEN stage.dirty ELSE surface.dirty,
                IF p = "overlay" THEN overlay.dirty ELSE {})

(* The transfer of the repair list fails: the list stays.                    *)
PresentRepairFails(p) ==
    /\ Usable(p) /\ Staged(p) /\ Fault
    /\ \E f \in Failures(planes[p].repair) :
        /\ panel' = Shows(RepairPicture, f[1])
        /\ loose' = loose \ f[1] /\ lost' = lost \ f[1]
    /\ UNCHANGED <<shadow, planes, stage, surface, overlay, pool>>

Repaired(p) == Covered(planes[p].repair)
Mended(p)   == Shows(RepairPicture, Repaired(p))

(* More rectangles than a list holds: the stage can only be given up.        *)
PresentOverflows(p) ==
    /\ Usable(p) /\ Staged(p)
    /\ \E a \in AffectedLists(p) : a.full = 1
    /\ panel' = Mended(p)
    /\ planes' = [planes EXCEPT ![p].repair = {}]
    /\ loose' = loose \ Repaired(p) /\ lost' = lost \ Repaired(p)
    /\ UNCHANGED <<shadow, stage, surface, overlay, pool, faults>>

(* The repair list a failed transfer leaves: progress also stands for slices *)
(* of the repair that went before.                                           *)
RepairAfter(p, affected, progress) ==
    IF progress = 1 \/ planes[p].repair # {} THEN affected ELSE {}

PresentTransferFails(p) ==
    /\ Usable(p) /\ Staged(p) /\ Fault
    /\ \E a \in AffectedLists(p) : \E f \in Failures(a.list) :
        LET repair == RepairAfter(p, a.list, f[2])
        IN  /\ a.full = 0
            /\ panel' = [q \in Pixels |-> IF q \in f[1] THEN Prospect(p)[q] ELSE Mended(p)[q]]
            /\ planes' = [planes EXCEPT ![p].repair = repair]
            /\ loose' = loose \ (Repaired(p) \cup f[1])
            /\ lost' = IF f[2] = 1 \/ planes[p].repair # {}
                       THEN lost \ (Repaired(p) \cup f[1]) ELSE lost \cup f[1]
    /\ UNCHANGED <<shadow, stage, surface, overlay, pool>>

(* Success.  A batch of the base is applied to the shadow, one of the        *)
(* overlay becomes the overlay; the batch or the borrow ends.                *)
Presents(p) ==
    /\ Usable(p) /\ Staged(p)
    /\ \E a \in AffectedLists(p) :
        LET sent == Repaired(p) \cup Covered(a.list)
        IN  /\ a.full = 0
            /\ panel' = [q \in Pixels |->
                    IF q \in Covered(a.list) THEN Prospect(p)[q] ELSE Mended(p)[q]]
            /\ loose' = loose \ sent /\ lost' = lost \ sent
    /\ planes' = [planes EXCEPT ![p].repair = {}]
    /\ UNCHANGED faults
    /\ \/ /\ p = "overlay"
          /\ overlay' = [paint |-> stage.paint, dirty |-> stage.dirty, count |-> stage.count]
          /\ stage' = NoStage
          /\ pool' = PoolAfter(NoStage, overlay', {})
          /\ UNCHANGED <<shadow, surface>>
       \/ /\ p = "base" /\ stage.owner = "base"
          /\ shadow' = Over(stage.paint, shadow)
          /\ stage' = NoStage
          /\ pool' = PoolAfter(NoStage, overlay, planes["overlay"].repair)
          /\ UNCHANGED <<surface, overlay>>
       \/ /\ p = "base" /\ stage.owner # "base"
          /\ surface' = NoSurface
          /\ UNCHANGED <<shadow, stage, overlay, pool>>

(* k210_display_abort *)
Abort(p) ==
    /\ Usable(p) /\ Staged(p)
    /\ \/ /\ stage.owner = p
          /\ stage' = NoStage
          /\ pool' = PoolAfter(NoStage, overlay, planes["overlay"].repair)
          /\ UNCHANGED surface
       \/ /\ stage.owner # p
          /\ surface' = NoSurface
          /\ UNCHANGED <<stage, pool>>
    /\ UNCHANGED <<panel, shadow, planes, overlay, loose, lost, faults>>

---------------------------------------------------------------------------
(* k210_display_close *)

StageWithout(p)   == IF stage.owner = p THEN NoStage ELSE stage
SurfaceWithout(p) == IF p = "base" THEN NoSurface ELSE surface
OverlayWithout(p) == IF p = "overlay" THEN NoOverlay ELSE overlay

(* The rectangles to clean; one that does not fit the list is dropped.       *)
CleanupLists(p) ==
    {a.list : a \in DirtyAddAll(planes[p].repair, IF p = "overlay" THEN overlay.dirty ELSE {})}

RepairWithout(p) == IF p = "overlay" THEN {} ELSE planes["overlay"].repair

(* Cleaning sends the shadow alone, of either plane: where the base repairs  *)
(* under a committed overlay, the overlay disappears from the panel.         *)
Hidden(p, S) == {q \in S : p = "base" /\ overlay.paint[q] # None}

Cleans(p) ==
    /\ \E list \in CleanupLists(p) :
        /\ panel' = Shows(shadow, Covered(list))
        /\ loose' = loose \ Covered(list)
        /\ lost' = (lost \ Covered(list)) \cup Hidden(p, Covered(list))
    /\ stage' = StageWithout(p) /\ surface' = SurfaceWithout(p)
    /\ overlay' = OverlayWithout(p)
    /\ pool' = PoolAfter(StageWithout(p), OverlayWithout(p), RepairWithout(p))
    /\ UNCHANGED shadow

Close(p) ==
    /\ Usable(p)
    /\ Cleans(p)
    /\ planes' = [planes EXCEPT ![p].open = 0, ![p].repair = {}]
    /\ UNCHANGED faults

(* hk_display_close of the boot screen that fails: the stage is gone, the    *)
(* claim stays; with progress the plane is quarantined.                      *)
CloseFails ==
    /\ Usable("base") /\ Fault
    /\ \E f \in Failures(planes["base"].repair) :
        /\ panel' = Shows(shadow, f[1])
        /\ loose' = loose \ f[1]
        /\ lost' = (lost \ f[1]) \cup Hidden("base", f[1])
        /\ planes' = [planes EXCEPT !["base"].quarantined = IF f[2] = 1 THEN 1 ELSE @]
    /\ stage' = StageWithout("base") /\ surface' = NoSurface
    /\ pool' = PoolAfter(StageWithout("base"), overlay, planes["overlay"].repair)
    /\ UNCHANGED <<shadow, overlay>>

(* hk_display_retire when the cleaning fails (when it succeeds it is Close,  *)
(* also of a quarantined plane): everything of the session is dropped and    *)
(* the plane quarantined; what it left on the panel stays there.             *)
RetireFails(p) ==
    /\ planes[p].open = 1 /\ Fault
    /\ \E list \in CleanupLists(p) : \E f \in Failures(list) :
        /\ panel' = Shows(shadow, f[1])
        /\ loose' = loose \ f[1]
        /\ lost' = lost \cup Covered(list)
    /\ planes' = [planes EXCEPT ![p].open = 0, ![p].repair = {}, ![p].quarantined = 1]
    /\ stage' = StageWithout(p) /\ surface' = SurfaceWithout(p)
    /\ overlay' = OverlayWithout(p)
    /\ pool' = PoolAfter(StageWithout(p), OverlayWithout(p), RepairWithout(p))
    /\ UNCHANGED shadow

RetireQuarantined(p) ==
    /\ planes[p].open = 1 /\ planes[p].quarantined = 1
    /\ Cleans(p)
    /\ planes' = [planes EXCEPT ![p].open = 0, ![p].repair = {}]
    /\ UNCHANGED faults

(* A camera stream or a decoder takes and returns the pool.                  *)
PoolTaken == /\ pool = "free" /\ pool' = "other"
             /\ UNCHANGED <<panel, shadow, planes, stage, surface, overlay, loose, lost, faults>>
PoolGiven == /\ pool = "other" /\ pool' = "free"
             /\ UNCHANGED <<panel, shadow, planes, stage, surface, overlay, loose, lost, faults>>

DisplayNext ==
    \/ AcquireSurface
    \/ \E d \in Draws : Draw(d)
    \/ \E r \in Regions : Mark(r)
    \/ \E w \in Writes : WriteSurface(w)
    \/ \E p \in Planes : \/ Open(p) \/ BeginBatch(p) \/ Abort(p)
                         \/ PresentRepairFails(p) \/ PresentOverflows(p)
                         \/ PresentTransferFails(p) \/ Presents(p)
                         \/ Close(p) \/ RetireFails(p) \/ RetireQuarantined(p)
    \/ CloseFails
    \/ PoolTaken \/ PoolGiven

DisplaySpec == DisplayInit /\ [][DisplayNext]_displayVars

---------------------------------------------------------------------------
(* Properties *)

(* A pixel of the panel that differs from the committed picture (the overlay *)
(* over the shadow) is on a plane's repair list, so the next present or      *)
(* release of that plane mends it; except where the borrower of the surface  *)
(* has not had its writes sent, or the picture was damaged without a repair  *)
(* entry: by the unreported first slice of a failed transfer, by the base's  *)
(* release under an overlay, or by a failed retirement.                      *)
DamageAccounted ==
    \A q \in Pixels :
        \/ panel[q] = Committed[q]
        \/ \E p \in Planes : q \in Covered(planes[p].repair)
        \/ q \in loose \cup lost

(* The display holds the shared workspace exactly while it keeps something   *)
(* there: a batch, a committed overlay, or rectangles to repair under it.    *)
(* Holding it without need keeps the camera from starting; keeping data      *)
(* there without holding it hands its memory to the camera.                  *)
WorkspaceExact ==
    pool = "display" <=> \/ stage.owner # Nobody
                         \/ overlay.count # 0 \/ overlay.dirty # {}
                         \/ planes["overlay"].repair # {}
=============================================================================
