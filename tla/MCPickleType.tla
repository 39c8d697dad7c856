---------------------------- MODULE MCPickleType ----------------------------
(* A class, a reconstructor, numpy's _frombuffer and a factory (re._compile
   gives an re.Pattern), by name or through their strings; a builtin type. *)
EXTENDS PickleType

MCNames == {"Model", "_reconstructor", "numpy._frombuffer", "re._compile"}
MCClasses == {"Model"}
MCTexts == {"app", "Model"}
MCNamed == [p \in MCTexts \X MCTexts |->
              IF p = <<"app", "Model">> THEN "Model" ELSE "_reconstructor"]
MCReconstructors == {"_reconstructor"}
=============================================================================
