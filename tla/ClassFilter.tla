----------------------------- MODULE ClassFilter ------------------------------
(***************************************************************************)
(* internal/controllers/utils: which resources belong to this controller   *)
(* and which events reach it.  An object carries the value of its          *)
(* developer.konghq.com/controller.class annotation in the field "class",  *)
(* some value other than ControllerClass when the annotation is absent.    *)
(***************************************************************************)
CONSTANT ControllerClass    \* --controller-class

\* SetupWithManager: GeneratePredicateFuncsForControllerClassFilter(name, false, true)
specCheckEnabled == FALSE
annotationCheckEnabled == TRUE

MatchesControllerClassName(obj) == obj.class = ControllerClass

IsControllerClassAnnotationConfigured(obj) == obj.class = ControllerClass

IsControllerClassSpecConfigured(obj) == TRUE

-----------------------------------------------------------------------------
\* Seeded bug: the annotation is not looked at.
FilterFuncSpecOnly(obj) == specCheckEnabled /\ IsControllerClassSpecConfigured(obj)

\* The filter of create, delete and generic events.
FilterFunc(obj) ==
    \/ annotationCheckEnabled /\ IsControllerClassAnnotationConfigured(obj)
    \/ specCheckEnabled /\ IsControllerClassSpecConfigured(obj)

\* Seeded bug: only the old object is looked at.
UpdateFuncOldOnly(old, new) ==
    annotationCheckEnabled /\ IsControllerClassAnnotationConfigured(old)

\* The filter of update events.  In Go && binds tighter than ||, so each flag
\* guards only the check of the old object: the last disjunct always holds.
UpdateFunc(old, new) ==
    \/ annotationCheckEnabled /\ IsControllerClassAnnotationConfigured(old)
    \/ IsControllerClassAnnotationConfigured(new)
    \/ specCheckEnabled /\ IsControllerClassSpecConfigured(old)
    \/ IsControllerClassSpecConfigured(new)
=============================================================================
