------------------------------ MODULE MCIODump ------------------------------
\* One managed operator, and one ATen operator it may call.
EXTENDS IODump, TLC
CONSTANTS norm, mm, t1, t2, path

MCModuleOf == (norm :> "RMSNorm") @@ (mm :> "Linear")

MCEnvs == {Silent, [Silent EXCEPT !.metas = TRUE, !.range = <<1, 1>>]}
MCYamls == {NoFile, [Silent EXCEPT !.dir = path, !.max = 1]}
MCApis == {[Silent EXCEPT !.metas = TRUE],
           [Silent EXCEPT !.metas = TRUE, !.max = 2, !.ops = {norm}],
           [Silent EXCEPT !.metas = TRUE, !.print = TRUE],
           [Silent EXCEPT !.dir = path, !.metas = TRUE, !.range = <<1, 2>>,
                          !.ops = {norm}, !.values = TRUE]}
=============================================================================
