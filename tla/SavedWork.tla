------------------------------- MODULE SavedWork -------------------------------
(***************************************************************************)
(* The tools that write files for a human, side by side: plugins edited    *)
(* and files uploaded on the web page, presets saved by the visual editor, *)
(* plugins generated by the command line. They write to directories of     *)
(* their own, so no step of one is a step of another.                      *)
(***************************************************************************)
EXTENDS PluginEditing, PresetEditing, Importing

SavedWorkInit == PluginEditingInit /\ PresetEditingInit /\ ImportingInit

SavedWorkNext ==
    \/ (EditNext \/ UploadNext) /\ UNCHANGED <<presetVars, importVars>>
    \/ PresetNext /\ UNCHANGED <<pluginEditingVars, importVars>>
    \/ ImportingNext /\ UNCHANGED <<pluginEditingVars, presetVars>>

savedWorkVars == <<pluginEditingVars, presetVars, importVars>>

SavedWorkSpec == SavedWorkInit /\ [][SavedWorkNext]_savedWorkVars

\* What the tools write for a human is what was meant: the source of a plugin
\* and its uploads (pluginsource.go, assets.go), presets saved by the visual
\* editor (editor.go), and imported plugins (internal/importer).
SavedWorkIsWhole == PluginSourcesAreWhole /\ PresetsAreMeant /\ ImportIsSound
=============================================================================
