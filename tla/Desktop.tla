------------------------------- MODULE Desktop -------------------------------
(***************************************************************************)
(* The graphical desktop of src/gui_lion.c and the browser window of   *)
(* src/browser.c, as gui_step runs them once per timer tick: sample    *)
(* the mouse, handle a press or a release of the button, move what is      *)
(* dragged, handle the keys that are waiting, redraw the dirty rectangle.  *)
(*                                                                         *)
(* The screen is one row of Width cells and a window covers an interval of *)
(* them, so rectangles, their bounding box, overlaps and the z-order are   *)
(* the code's in one dimension.  What a cell shows is the set of windows   *)
(* drawn over it with their Look (focus and content): two cells are equal  *)
(* when the pixels the code draws from that state are.  Left out: colours, *)
(* fonts, hover highlights, the cursor, where desktop icons are.           *)
(***************************************************************************)
EXTENDS Integers, Sequences, FiniteSetsExt, SequencesExt

CONSTANTS Windows,     \* the windows of this instance, a subset of Range(Order)
          Width,       \* cells of the screen
          TextMax,     \* NOTEPAD_TEXT_MAX, in characters
          RamMax,      \* RAMFS_DATA_MAX, what a file in memory holds of them
          FirstNotes,  \* what /notepad.txt may be at the start
          Keys         \* keys the user may press

Order == <<"terminal", "files", "about", "settings", "notepad", "logs">>
Index(id) == CHOOSE i \in DOMAIN Order : Order[i] = id

ASSUME DesktopAssumption ==
    /\ Windows \subseteq ToSet(Order)
    /\ Width \in Nat \ {0}
    /\ TextMax \in Nat
    /\ RamMax \in Nat

Cells == 0 .. Width - 1
Shortcut == [t |-> "terminal", f |-> "files", a |-> "about", s |-> "settings"]
Control == {"esc", "enter", "back"}
NoFile == "none"
Files == {"readme", "notes"}
NoIcon == [app |-> "none", moved |-> FALSE]
NoCache == [used |-> FALSE, pixels |-> <<>>]
NoDrag == [active |-> FALSE, id |-> "none", dx |-> 0, cache |-> NoCache]

VARIABLES windows,    \* [Windows -> geometry and flags]
          ui,         \* gui_active, start_open, the two key focuses, the wallpaper
          drag,       \* drag_active, drag_id, drag_dx and the drag cache
          icon,       \* the desktop icon held, or NoIcon
          terminal,   \* its input line; the lines above change only with it
          notepad,    \* its text, and whether it was loaded
          notes,      \* the file /notepad.txt, whether it is in memory, and whether
                      \* the last call that saved it failed
          files,      \* file_selected and file_last_clicked
          browser,    \* active; url_focus is set with it and never cleared before
          mouse,      \* mouse_px_x, the button now and previous_buttons
          view,       \* the dirty rectangle, the screen, and last_render_tick = now
          pc          \* where gui_step is

apps == <<terminal, notepad, notes, files, browser>>
desktopVars == <<windows, ui, drag, icon, apps, mouse, view, pc>>

(***************************************************************************)
(* What the screen should show.                                            *)
(***************************************************************************)
Shown(id) == windows[id].visible /\ ~windows[id].minimized
Extent(id) == windows[id].x .. (windows[id].x + windows[id].w - 1)
WindowsAt(c) == {id \in Windows : Shown(id) /\ c \in Extent(id)}

DrawTerminal == <<terminal>>
DrawFiles == <<files.selected, notes.exists>>       \* the list has the file or not
DrawNotepad == notepad.text
Look(id) == [focused |-> windows[id].focused,
             content |-> CASE id = "terminal" -> DrawTerminal
                           [] id = "notepad" -> DrawNotepad
                           [] id = "files" -> DrawFiles
                           [] OTHER -> <<>>]

StartCells == {c \in Cells : 2 * c < Width}
DrawStartMenu(c) == ui.start /\ c \in StartCells
Picture(c, skip) == [kind |-> "desktop", wallpaper |-> ui.wallpaper,
                     start |-> DrawStartMenu(c),
                     wins |-> [id \in WindowsAt(c) \ {skip} |-> Look(id)]]
BrowserPicture == [kind |-> "browser", wallpaper |-> 0, start |-> FALSE, wins |-> <<>>]
Scene(skip) == [c \in Cells |-> Picture(c, skip)]

\* The bounding box of two rectangles: what dirty_rect keeps of several.
Hull(a, b) == IF a \cup b = {} THEN {} ELSE Min(a \cup b) .. Max(a \cup b)
FocusedCells == LET f == {id \in Windows : Shown(id) /\ windows[id].focused}
                IN  IF f = {} THEN Cells ELSE (UNION {Extent(id) : id \in f}) \cap Cells

(***************************************************************************)
(* Operations on windows: each gives the windows, the flags or the apps    *)
(* that the C function leaves behind.                                      *)
(***************************************************************************)
Home(id) == CASE id = "terminal" -> <<18, 62>> [] id = "files" -> <<25, 50>>
              [] id = "about" -> <<34, 36>> [] id = "settings" -> <<41, 34>>
              [] id = "notepad" -> <<22, 56>> [] id = "logs" -> <<10, 80>>

Focus(ws, id) == [v \in Windows |->
    [ws[v] EXCEPT !.focused = v = id /\ ws[v].visible /\ ~ws[v].minimized]]
Focused(id) == [ui EXCEPT !.tfocus = id = "terminal", !.nfocus = id = "notepad",
                          !.start = FALSE]

Raise(id) == Focus([windows EXCEPT ![id].visible = TRUE, ![id].minimized = FALSE], id)

\* notepad_init: a file that cannot be opened or read leaves the notepad empty.
Loaded == IF notepad.loaded THEN {notepad}
          ELSE {[text |-> text, loaded |-> TRUE] : text \in {<<>>, notes.text}}

\* show(id), from a click, an icon, a menu or a key.
Show(id) ==
    /\ windows' = Raise(id)
    /\ ui' = Focused(id)
    /\ notepad' \in IF id = "notepad" THEN Loaded ELSE {notepad}

\* notepad_save, which tells no one how vfs_open and vfs_write ended.  A new file is in
\* memory when the disk cannot take it, and keeps RamMax characters of any text.  A save
\* that failed left the file as it was, or a new one empty, or the first k characters of a
\* file on the disk overwritten (with "0" after the end of the text), or all of them.
Fit(text, ram) == IF ram THEN SubSeq(text, 1, Min({Len(text), RamMax})) ELSE text
Saved(text, ram) == [exists |-> TRUE, text |-> Fit(text, ram), ram |-> ram, failed |-> FALSE]
Torn(text, k) == [i \in DOMAIN notes.text |->
    IF i > k THEN notes.text[i] ELSE IF i \in DOMAIN text THEN text[i] ELSE "0"]
Left(exists, text, ram) == [exists |-> exists, text |-> text, ram |-> ram, failed |-> TRUE]
SaveFails(text) ==
    \/ notes' = Left(notes.exists, notes.text, notes.ram)
    \/ ~notes.exists /\ \E ram \in BOOLEAN : notes' = Left(TRUE, <<>>, ram)
    \/ /\ notes.exists /\ ~notes.ram
       /\ \E k \in DOMAIN notes.text : notes' = Left(TRUE, Torn(text, k), FALSE)
    \/ notes.exists /\ ~notes.ram /\ notes' = Left(TRUE, text, FALSE)
SaveNotes ==
    \/ \E ram \in BOOLEAN : (notes.exists => ram = notes.ram) /\ notes' = Saved(notepad.text, ram)
    \/ SaveFails(notepad.text)
Save(id) == IF id = "notepad" THEN SaveNotes ELSE UNCHANGED notes
NoKeysFor_Terminal(id) == [ui EXCEPT !.tfocus = id # "terminal" /\ ui.tfocus]
NoKeysFor(id) == [ui EXCEPT !.tfocus = id # "terminal" /\ ui.tfocus,
                            !.nfocus = id # "notepad" /\ ui.nfocus]

Hidden(ws, id) == [ws EXCEPT ![id].visible = FALSE, ![id].minimized = FALSE,
                             ![id].focused = FALSE]
Hide(id) ==
    /\ windows' = Hidden(windows, id)
    /\ ui' = NoKeysFor(id)
    /\ drag' = [drag EXCEPT !.active = FALSE]
    /\ Save(id)

Minimized(ws, id) == [ws EXCEPT ![id].minimized = TRUE, ![id].focused = FALSE]

Maximized(id) ==
    LET w == windows[id]
        v == IF w.maximized
             THEN [w EXCEPT !.maximized = FALSE, !.x = w.old_x, !.w = w.old_w,
                            !.old_x = 0, !.old_w = 0]      \* not read again
             ELSE [w EXCEPT !.maximized = TRUE, !.old_x = w.x, !.old_w = w.w,
                            !.x = 0, !.w = Width]
    IN  Focus([windows EXCEPT ![id] = v], id)

CloseGui == ui' = [ui EXCEPT !.gui = FALSE]

(***************************************************************************)
(* gui_start and the sampling of the mouse.                                *)
(***************************************************************************)
DesktopInit ==
    /\ windows = [id \in Windows |->
          [visible |-> FALSE, minimized |-> FALSE, focused |-> FALSE, maximized |-> FALSE,
           x |-> (Width * Home(id)[1]) \div 100, w |-> (Width * Home(id)[2]) \div 100,
           old_x |-> 0, old_w |-> 0]]
    /\ ui = [gui |-> TRUE, start |-> FALSE, tfocus |-> FALSE, nfocus |-> FALSE,
             wallpaper |-> 0]
    /\ drag = NoDrag
    /\ icon = NoIcon
    /\ terminal = "empty"
    /\ notepad = [text |-> <<>>, loaded |-> FALSE]
    /\ notes \in FirstNotes
    /\ files = [selected |-> NoFile, last |-> NoFile]
    /\ browser = FALSE
    /\ mouse = [x |-> 0, button |-> FALSE, previous |-> FALSE]
    /\ view = [dirty |-> {}, screen |-> Scene("none"), rendered |-> FALSE]
    /\ pc = "idle"

Sample(x, b) ==
    /\ pc = "idle" /\ ui.gui
    /\ mouse' = [mouse EXCEPT !.x = x, !.button = b]
    /\ view' = [view EXCEPT !.rendered = FALSE,
                   !.dirty = IF x # mouse.x \/ b # mouse.previous
                             THEN Hull(@, {x, mouse.x}) ELSE @]
    /\ pc' = IF b = mouse.previous THEN "move" ELSE IF b THEN "press" ELSE "release"
    /\ UNCHANGED <<windows, ui, drag, icon, apps>>

(***************************************************************************)
(* A press: handle_click.  Whatever it changed that ui_signature covers    *)
(* makes the whole screen dirty.  The signature adds up these values (of   *)
(* the notepad its length and cursor, of the terminal what no press        *)
(* changes); that two sums of different values may be equal is left out.   *)
(***************************************************************************)
Signature_NoStart ==
    <<windows, ui.gui, browser, icon, terminal, Len(notepad.text), files.selected>>
Signature == <<windows, ui.start, ui.gui, browser, icon, terminal, Len(notepad.text),
               files.selected>>
DirtyIfChanged == view' = [view EXCEPT !.dirty =
    IF Signature' # Signature \/ ui'.wallpaper # ui.wallpaper THEN Cells ELSE @]

Press == pc = "press" /\ pc' = "move" /\ UNCHANGED mouse

ClickBrowser ==
    /\ Press /\ browser
    /\ UNCHANGED <<windows, ui, drag, icon, apps, view>>

\* An icon, a dock button or a menu item opens a window, or the browser.
Apps == Windows \cup {"browser"}
Launch(app, start) ==
    \/ /\ app \in Windows /\ Show(app)
       /\ UNCHANGED browser
    \/ /\ app = "browser"
       /\ browser' = TRUE
       /\ ui' = [ui EXCEPT !.start = start]
       /\ UNCHANGED <<windows, notepad>>

ClickDock(app) ==
    /\ Press /\ ~browser /\ app # "logs"
    /\ Launch(app, ui.start)
    /\ UNCHANGED <<drag, icon, terminal, notes, files>>
    /\ DirtyIfChanged

ClickStart ==
    /\ Press /\ ~browser
    /\ ui' = [ui EXCEPT !.start = ~@]
    /\ UNCHANGED <<windows, drag, icon, apps>>
    /\ DirtyIfChanged

InMenu == Press /\ ~browser /\ ui.start /\ mouse.x \in StartCells

ClickMenu(app) ==
    /\ InMenu
    /\ Launch(app, FALSE)
    /\ UNCHANGED <<drag, icon, terminal, notes, files>>
    /\ DirtyIfChanged

ClickPower ==
    /\ InMenu
    /\ CloseGui
    /\ view' = [view EXCEPT !.dirty = Cells]
    /\ UNCHANGED <<windows, drag, icon, apps>>

\* The windows are searched from the last one, whatever lies on top.
Hit(id) == id \in WindowsAt(mouse.x) /\ \A o \in WindowsAt(mouse.x) : Index(o) <= Index(id)

OnWindow(id) == Press /\ ~browser /\ Hit(id)
OnButtons(id) == OnWindow(id) /\ mouse.x = Max(Extent(id))
NoKeys == [ui EXCEPT !.start = FALSE, !.tfocus = FALSE, !.nfocus = FALSE]

ClickClose(id) ==
    /\ OnButtons(id)
    /\ windows' = Hidden(Focus(windows, id), id)
    /\ ui' = NoKeys
    /\ drag' = [drag EXCEPT !.active = FALSE]
    /\ Save(id)
    /\ UNCHANGED <<icon, terminal, notepad, files, browser>>
    /\ DirtyIfChanged

ClickMinimize_NoSave(id) ==
    /\ OnButtons(id)
    /\ windows' = Minimized(Focus(windows, id), id)
    /\ ui' = NoKeys
    /\ drag' = [drag EXCEPT !.active = FALSE]
    /\ UNCHANGED <<icon, apps>>
    /\ DirtyIfChanged

ClickMinimize(id) ==
    /\ OnButtons(id)
    /\ windows' = Minimized(Focus(windows, id), id)
    /\ ui' = NoKeys
    /\ drag' = [drag EXCEPT !.active = FALSE]
    /\ Save(id)
    /\ UNCHANGED <<icon, terminal, notepad, files, browser>>
    /\ DirtyIfChanged

ClickMaximize(id) ==
    /\ OnButtons(id)
    /\ windows' = Maximized(id)
    /\ ui' = Focused(id)
    /\ UNCHANGED <<drag, icon, apps>>
    /\ DirtyIfChanged

(***************************************************************************)
(* The title bar starts a drag.  drag_cache_begin draws the screen without *)
(* the window and keeps the pixels, when the heap has room for a screen.   *)
(***************************************************************************)
ClickTitle(id) ==
    /\ OnWindow(id)
    /\ windows' = Focus(windows, id)
    /\ ui' = Focused(id)
    /\ UNCHANGED <<icon, apps>>
    /\ IF windows[id].maximized
       THEN UNCHANGED drag /\ DirtyIfChanged
       ELSE \E fits \in BOOLEAN :
              /\ drag' = [active |-> TRUE, id |-> id, dx |-> mouse.x - windows[id].x,
                          cache |-> IF fits THEN [used |-> TRUE, pixels |-> Scene(id)']
                                            ELSE NoCache]
              /\ IF fits
                 THEN view' = [screen |-> Scene(id)', rendered |-> TRUE,
                               dirty |-> IF Signature' # Signature THEN Cells ELSE {}]
                 ELSE DirtyIfChanged

\* Inside a window: the wallpaper buttons of Settings, the files of Files.
ClickBody(id) ==
    /\ OnWindow(id) /\ id # "files"
    /\ windows' = Focus(windows, id)
    /\ \E p \in IF id = "settings" THEN 0 .. 2 ELSE {ui.wallpaper} :
          ui' = [Focused(id) EXCEPT !.wallpaper = p]
    /\ UNCHANGED <<drag, icon, apps>>
    /\ DirtyIfChanged

\* file_manager_open_selected does nothing when the file cannot be opened or read, and
\* writes a dot for what is no character.
FileText(f) == IF f = "notes" THEN [i \in DOMAIN notes.text |->
                                     IF notes.text[i] = "0" THEN "." ELSE notes.text[i]]
               ELSE <<"r">>
Listed(f) == f = "notes" => notes.exists
ClickFile(f, soon) ==
    /\ OnWindow("files")
    /\ Listed(f)
    /\ IF files.selected = f /\ files.last = f /\ soon
       THEN /\ files' = [files EXCEPT !.last = NoFile]
            /\ \/ /\ notepad' = [text |-> FileText(f), loaded |-> TRUE]
                  /\ IF "notepad" \in Windows
                     THEN windows' = Raise("notepad") /\ ui' = Focused("notepad")
                     ELSE windows' = Focus(windows, "files") /\ ui' = Focused("files")
               \/ /\ windows' = Focus(windows, "files") /\ ui' = Focused("files")
                  /\ UNCHANGED notepad
       ELSE /\ files' = IF f = NoFile THEN [files EXCEPT !.last = NoFile]
                        ELSE [selected |-> f, last |-> f]
            /\ windows' = Focus(windows, "files") /\ ui' = Focused("files")
            /\ UNCHANGED notepad
    /\ UNCHANGED <<drag, icon, terminal, notes, browser>>
    /\ DirtyIfChanged

ClickIcon(app) ==
    /\ Press /\ ~browser /\ WindowsAt(mouse.x) = {} /\ app # "logs"
    /\ icon' = [app |-> app, moved |-> FALSE]
    /\ ui' = [ui EXCEPT !.start = FALSE]
    /\ UNCHANGED <<windows, drag, apps>>
    /\ DirtyIfChanged

ClickNothing ==
    /\ Press /\ ~browser /\ WindowsAt(mouse.x) = {}
    /\ ui' = [ui EXCEPT !.start = FALSE]
    /\ UNCHANGED <<windows, drag, icon, apps>>
    /\ DirtyIfChanged

(***************************************************************************)
(* The release, and handle_move, which every step runs.                    *)
(***************************************************************************)
Freed == NoDrag                           \* drag_id and drag_dx are not read again

Release ==
    /\ pc = "release" /\ pc' = "move"
    /\ IF icon.app \in Apps /\ ~icon.moved THEN Launch(icon.app, ui.start)
       ELSE UNCHANGED <<windows, ui, notepad, browser>>
    /\ icon' = NoIcon
    /\ drag' = Freed
    /\ view' = [view EXCEPT !.dirty = Cells]
    /\ UNCHANGED <<terminal, notes, files, mouse>>

MoveIcon ==
    /\ pc = "move" /\ icon # NoIcon /\ pc' = "keys"
    /\ icon' \in {icon, [icon EXCEPT !.moved = TRUE]}     \* it may be held at an edge
    /\ UNCHANGED <<windows, ui, drag, apps, mouse, view>>

\* The dragged window over the kept pixels, as drag_cache_move draws it.
Over(pixel, id, ws, c) ==
    IF ~(ws[id].visible /\ ~ws[id].minimized) \/ c \notin ws[id].x .. ws[id].x + ws[id].w - 1
    THEN pixel
    ELSE [pixel EXCEPT !.wins = [v \in DOMAIN @ \cup {id} |->
                                   IF v = id THEN Look(id) ELSE @[v]]]
Clamp(x, w) == Max({0, Min({x, Width - w})})

MoveWindow ==
    /\ pc = "move" /\ icon = NoIcon /\ drag.active /\ windows[drag.id].visible
    /\ LET id == drag.id
           x == Clamp(mouse.x - drag.dx, windows[id].w)
           moved == [windows EXCEPT ![id].x = x]
           over == Extent(id) \cup (x .. x + windows[id].w - 1)
       IN  /\ windows' = moved
           /\ view' = IF drag.cache.used
                      THEN [view EXCEPT !.dirty = {},
                              !.screen = [c \in Cells |-> IF c \in Hull(over, over)
                                  THEN Over(drag.cache.pixels[c], id, moved, c) ELSE @[c]]]
                      ELSE [view EXCEPT !.dirty = IF moved = windows THEN @
                                                  ELSE Hull(@, over)]
    /\ pc' = "keys"
    /\ UNCHANGED <<ui, drag, icon, apps, mouse>>

MoveNothing ==
    /\ pc = "move" /\ icon = NoIcon
    /\ ~(drag.active /\ windows[drag.id].visible)
    /\ drag' = [drag EXCEPT !.active = FALSE]
    /\ pc' = "keys"
    /\ UNCHANGED <<windows, ui, icon, apps, mouse, view>>

(***************************************************************************)
(* The keys: handle_key, and dirty_focused after each of them.             *)
(***************************************************************************)
AtKeys == pc = "keys" /\ ~browser /\ UNCHANGED <<icon, browser, mouse, pc>>
DirtyFocused(opened) == view' = [view EXCEPT !.dirty =
    IF opened THEN Cells ELSE Hull(@, FocusedCells')]

KeyEsc ==
    /\ AtKeys
    /\ LET open == {id \in Windows : windows[id].focused}
           first == CHOOSE id \in open : \A o \in open : Index(id) <= Index(o)
       IN  \/ ui.tfocus /\ windows["terminal"].visible /\ Hide("terminal")
           \/ ~(ui.tfocus /\ windows["terminal"].visible) /\ open # {} /\ Hide(first)
           \/ /\ ~(ui.tfocus /\ windows["terminal"].visible) /\ open = {}
              /\ CloseGui
              /\ UNCHANGED <<windows, drag, notes>>
    /\ UNCHANGED <<terminal, notepad, files>>
    /\ DirtyFocused(~ui'.gui)

\* notepad_insert: the cursor is always at the end of the text.
KeyNotepad(k) ==
    /\ AtKeys /\ k # "esc" /\ ui.nfocus
    /\ notepad' = [notepad EXCEPT !.text =
          IF k = "back" THEN IF @ = <<>> THEN @ ELSE Front(@)
          ELSE IF Len(@) >= TextMax THEN @ ELSE Append(@, "c")]
    /\ UNCHANGED <<windows, ui, drag, terminal, notes, files>>
    /\ DirtyFocused(FALSE)

\* The terminal: what is typed may spell "exit", which leaves it in the line.
KeyTerminal(k) ==
    /\ AtKeys /\ k # "esc" /\ ~ui.nfocus /\ ui.tfocus
    /\ UNCHANGED <<notepad, files>>
    /\ \/ k = "enter" /\ terminal = "typed" /\ Hide("terminal") /\ UNCHANGED terminal
       \/ /\ terminal' = CASE k = "enter" -> "empty"
                           [] k \notin Control -> "typed"
                           [] k = "back" /\ terminal = "typed" -> "typed"
                           [] OTHER -> "empty"
          /\ UNCHANGED <<windows, ui, drag, notes>>
       \/ /\ k = "back" /\ terminal' = "empty"
          /\ UNCHANGED <<windows, ui, drag, notes>>
    /\ DirtyFocused(FALSE)

KeyDesktop(k) ==
    /\ AtKeys /\ k # "esc" /\ ~ui.nfocus /\ ~ui.tfocus
    /\ IF k \in DOMAIN Shortcut /\ Shortcut[k] \in Windows
       THEN /\ Show(Shortcut[k])
            /\ UNCHANGED <<drag, terminal, notes, files>>
            /\ DirtyFocused(~windows[Shortcut[k]].visible)
       ELSE /\ UNCHANGED <<windows, ui, drag, terminal, notepad, notes, files>>
            /\ DirtyFocused(FALSE)

\* browser_key, from the browser's own loop: a key after Escape is swallowed.
KeyBrowser(k) ==
    /\ pc \in {"keys", "browsing"} /\ (pc = "keys" => browser)
    /\ pc' = "browsing"
    /\ browser' = (browser /\ k # "esc")
    /\ UNCHANGED <<windows, ui, drag, icon, terminal, notepad, notes, files, mouse, view>>

(***************************************************************************)
(* render_all: at most one drawing per tick, only of the dirty rectangle.  *)
(***************************************************************************)
Drawn(dirty, screen) == [c \in Cells |-> IF c \in dirty THEN Picture(c, "none")
                                         ELSE screen[c]]

Render ==
    /\ pc \in {"keys", "browsing"}
    /\ LET dirty == IF browser \/ pc = "browsing" THEN Cells ELSE view.dirty
       IN  view' = IF view.rendered THEN [view EXCEPT !.dirty = dirty]
                   ELSE [view EXCEPT !.dirty = {},
                           !.screen = IF browser THEN [c \in Cells |-> BrowserPicture]
                                      ELSE Drawn(dirty, @)]
    /\ mouse' = [mouse EXCEPT !.previous = mouse.button]
    /\ pc' = "idle"
    /\ UNCHANGED <<windows, ui, drag, icon, apps>>

Click ==
    \/ ClickBrowser \/ ClickStart \/ ClickPower \/ ClickNothing
    \/ \E app \in Apps : ClickDock(app) \/ ClickMenu(app) \/ ClickIcon(app)
    \/ \E id \in Windows : \/ ClickClose(id) \/ ClickMinimize(id) \/ ClickMaximize(id)
                           \/ ClickTitle(id) \/ ClickBody(id)
    \/ /\ "files" \in Windows
       /\ \E f \in Files \cup {NoFile}, soon \in BOOLEAN : ClickFile(f, soon)

AnyKey ==
    \/ KeyEsc
    \/ \E k \in Keys : KeyNotepad(k) \/ KeyTerminal(k) \/ KeyDesktop(k) \/ KeyBrowser(k)

DesktopNext ==
    \/ \E x \in Cells, b \in BOOLEAN : Sample(x, b)
    \/ Click \/ Release \/ MoveIcon \/ MoveWindow \/ MoveNothing \/ AnyKey \/ Render

DesktopSpec == DesktopInit /\ [][DesktopNext]_desktopVars

(***************************************************************************)
(* Properties.                                                             *)
(***************************************************************************)
\* The keys go where the user sees the focus: at most one window has it, that
\* window is on the screen, and the terminal or the notepad takes the keys
\* exactly when it is that window (terminal_focus, notepad_focus and
\* ui_window.focused are set by different functions).
KeysFollowFocus ==
    LET f == {id \in Windows : windows[id].focused}
    IN  /\ \A id \in f : Shown(id)
        /\ Cardinality(f) <= 1
        /\ ui.tfocus <=> "terminal" \in f
        /\ ui.nfocus <=> "notepad" \in f

\* Between two ticks, when nothing is dirty, the screen shows the windows as
\* they are: the dirty rectangles (dirty_rect, dirty_focused, ui_signature)
\* covered everything a click, a key or a drag changed.  It is kept while every
\* shortcut key opens a window that was shut (OpensShut) and no file of the same length
\* is opened into a notepad that has the focus (OtherLength), not otherwise.
ScreenIsTrue ==
    (pc = "idle" /\ ui.gui /\ view.dirty = {}) =>
        view.screen = IF browser THEN [c \in Cells |-> BrowserPicture]
                      ELSE Scene("none")

\* "AUTOSAVE": while the notepad is off the screen its text is in the file, all of it on
\* the disk and what fits of it in memory, unless the call that saved it last failed.
NotepadAway == ui.gui /\ notepad.loaded /\ "notepad" \in Windows /\ ~Shown("notepad")
Autosaved == (NotepadAway /\ ~notes.failed) =>
    notes.exists /\ notes.text = Fit(notepad.text, notes.ram)

\* A shortcut key opens a window that was shut, and none is pressed in a drag.  Of any
\* other the screen may stay stale: a window that was open, or minimized, has only its
\* own cells redrawn (show, dirty_focused), not the start menu it closes nor the window
\* that had the focus; and the pixels kept for a drag know no window opened since.
OpensShut ==
    \A k \in Keys \cap DOMAIN Shortcut : KeyDesktop(k) /\ Shortcut[k] \in Windows =>
        ~windows[Shortcut[k]].visible /\ ~drag.active

\* A press that changes the text and no window (a file opened from Files within the time of
\* a double click, the notepad having got the focus in between) changes its length: the
\* signature has no more of it.
OtherLength == (pc = "press" /\ windows' = windows /\ notepad'.text # notepad.text) =>
    Len(notepad'.text) # Len(notepad.text)

(***************************************************************************)
(* What the code does not keep.                                            *)
(***************************************************************************)
\* "Opening an app again only brings its current window to the front": a press
\* on the window in front goes to it.  handle_click searches by number.
FrontGetsClick ==
    \A id \in Windows : (pc = "press" /\ Shown(id) /\ windows[id].focused
                         /\ mouse.x \in Extent(id)) => Hit(id)

\* "AUTOSAVE", also of a text longer than a file in memory, and when a save failed.
AutosavedWhole == NotepadAway => notes.exists /\ notes.text = notepad.text

\* Notes of which nothing was erased are never replaced by an empty file.
NotesSurvive == notes.exists => notes.text # <<>>

\* "AUTOSAVE", also when the desktop is left for the shell, which never returns.
AutosavedAtExit == (~ui.gui /\ notepad.loaded) => notes.exists /\ notes.text = notepad.text

\* What the file held is not replaced by another file that was only looked at.
NotesAreNotes == notes.exists => \A i \in DOMAIN notes.text : notes.text[i] # "r"
=============================================================================
