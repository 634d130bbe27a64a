---------------------------- MODULE ShopSettings ----------------------------
(***************************************************************************)
(* The parts of the shop that staff set up: payment methods, the theme of  *)
(* the storefront, the window and the packages of a product, the capacity  *)
(* of its dates.  A step of one leaves the others as they are: the window  *)
(* and the planner see the same columns of an availability row, each in an *)
(* account of its own.  Since every property below is about one part, it   *)
(* is enough to follow one part in a behaviour: focus says which.          *)
(***************************************************************************)
EXTENDS PaymentMethods, StorefrontThemes, ProductWindow, PackageCatalog, CapacityPlanner

VARIABLE focus

settingsVars == <<methodVars, themeVars, windowVars, packVars, plannerVars, focus>>

\* The parts out of focus start in one of their initial states.
SettingsInit ==
  /\ focus \in {"METHODS", "THEMES", "WINDOW", "PACKAGES", "PLANNER"}
  /\ MethodsInit /\ ThemesInit /\ WindowInit /\ PacksInit /\ PlannerInit
  /\ focus # "WINDOW" => shopWindow = [from |-> 1, through |-> LastDay]
  /\ focus # "PACKAGES" => \A k \in Pack : pack[k] = PackRow(TRUE, k = CHOOSE j \in Pack : TRUE)

SettingsNext ==
  /\ \/ /\ focus = "METHODS" /\ MethodsNext
        /\ UNCHANGED <<themeVars, windowVars, packVars, plannerVars>>
     \/ /\ focus = "THEMES" /\ ThemesNext
        /\ UNCHANGED <<methodVars, windowVars, packVars, plannerVars>>
     \/ /\ focus = "WINDOW" /\ WindowNext
        /\ UNCHANGED <<methodVars, themeVars, packVars, plannerVars>>
     \/ /\ focus = "PACKAGES" /\ PacksNext
        /\ UNCHANGED <<methodVars, themeVars, windowVars, plannerVars>>
     \/ /\ focus = "PLANNER" /\ PlannerNext
        /\ UNCHANGED <<methodVars, themeVars, windowVars, packVars>>
  /\ UNCHANGED focus

SettingsSpec == SettingsInit /\ [][SettingsNext]_settingsVars
-----------------------------------------------------------------------------
\* The columns of every part keep their types.
SettingsTypeOK ==
  MethodsTypeOK /\ ThemesTypeOK /\ WindowTypeOK /\ PacksTypeOK /\ PlannerTypeOK
=============================================================================
