SPECIFICATION Spec
CONSTANTS
    MaxPid = 2
    Algoritmo = "VRR"
    Operaciones = {"COMPUTO", "IO", "WAIT", "SIGNAL", "EXIT"}
    ConIO = {1}
    MaxCuenta = 2
INVARIANTS TypeOK UnLugar UnDespacho PaqueteDelEjecutado VerificaRespondida ContextoViene
CONSTRAINT SinCruces
CHECK_DEADLOCK FALSE
