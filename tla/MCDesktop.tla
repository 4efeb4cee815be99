------------------------------ MODULE MCDesktop ------------------------------
EXTENDS Desktop

Writing == {"terminal", "notepad"}
Opening == {"notepad", "files"}
All == Writing \cup Opening \cup {"about", "settings", "logs"}

NoNotes == {[exists |-> FALSE, text |-> <<>>, ram |-> FALSE, failed |-> FALSE]}
OldNotes == {Saved(<<"n">>, FALSE)}
AnyNotes == NoNotes \cup OldNotes

\* One run for several desktops: what the user of each opens, and whether he
\* uses the start menu, the browser and the maximize button, drags windows,
\* which file he looks at, and whether he writes more than one character, on a
\* machine whose notes may be new and whose saves may fail. No one presses the shortcut key of a window that
\* is not shut (OpensShut), and no file of the same length is opened into a notepad that
\* has the focus (OtherLength).
CONSTANT Users
Everyone == {{"notepad", "drag"}, {"notepad", "writer"}, {"terminal", "maximize", "drag"},
             {"about", "browser"}, Opening \cup {"readme"}, {"files", "notes", "drag"},
             {"settings", "drag"}, {"logs", "menu"}, {"terminal", "about", "drag"}, Writing \cup {"menu"}}

VARIABLE user
MCInit == DesktopInit /\ user \in Users /\ (notes.exists \/ "writer" \in user)
MCNext == /\ DesktopNext /\ OpensShut /\ OtherLength /\ UNCHANGED user
          /\ \A id \in Windows : /\ windows'[id].visible => id \in user
                                 /\ windows'[id].maximized => "maximize" \in user
          /\ drag'.active => "drag" \in user
          /\ icon'.app \in user \cup {"none"}
          /\ files'.selected \in user \cup {NoFile}
          /\ ui'.start => "menu" \in user
          /\ browser' => "browser" \in user
          /\ notes'.failed \/ Len(notepad'.text) > 1 => "writer" \in user
\* One desktop, whose user does anything.
AnySpec == DesktopInit /\ user = {} /\ [][DesktopNext /\ UNCHANGED user]_<<desktopVars, user>>
MCSpec == MCInit /\ [][MCNext]_<<desktopVars, user>>
=============================================================================
